---- MODULE Spec2Model ----
(***************************************************************************)
(* A model of the JNI bridge of src/src/jni_bindings.rs: the process-wide  *)
(* registry REPLICA_LOCKS (a DashMap from handle to Arc<Mutex<()>>), the   *)
(* heap boxes that hold the replicas (a handle is the address of its box), *)
(* the macro with_replica_lock, and the native handlers, each translated   *)
(* step by step.  A handler is split where another thread can observe it:  *)
(* at the registry access, at the mutex acquisition and at the body.       *)
(***************************************************************************)
EXTENDS Integers, Sequences, FiniteSets, TLC

\* ------------------------------------------------------------------ bounds

\* Bridge calls issued in one behaviour.
MaxCalls == 3
\* Readings of the wall clock (whole seconds): 0..MaxClock.
MaxClock == 1

Threads == {"t1", "t2"}
\* Heap addresses a replica box can be allocated at.
Addrs == {1, 2}
\* A host may present any jlong: 0, an address never issued, a stale address.
Handles == {0} \cup Addrs
\* DashMap shards; the shard of a key depends on the process's random hasher.
Shards == {0, 1}
Clock == 0..MaxClock
NoThread == "none"

\* The uuids of the model (as 128-bit values, here 1 and 2) and the strings a
\* host may pass: Uuid::parse_str is case-insensitive, Uuid::to_string prints
\* lower case, and a malformed string does not parse.
Uuids == {1, 2}
UuidStrs == {"u1", "U1", "u2", "not-a-uuid"}

VARIABLES
    heap,       \* [Addrs -> {"free","live"}]: whether a Box<Replica> lives at the address
    store,      \* [Addrs -> store]: the replica held by the box at the address
    registry,   \* the keys of REPLICA_LOCKS
    mutex,      \* [Addrs -> Threads \cup {NoThread}]: the holder of the handle's Mutex<()>
    poisoned,   \* [Addrs -> BOOLEAN]: the poison flag of the handle's Mutex<()>
    shardOf,    \* [Addrs -> Shards]: the DashMap shard each key hashes to
    pc,         \* [Threads -> position of the thread in its current call]
    call,       \* [Threads -> the call in progress and its arguments]
    last,       \* what the latest step returned to the host (NoRet when it returned nothing)
    now,        \* the reading Utc::now().timestamp() gives
    destroyed,  \* history: the handles nativeDestroy has removed from the registry
    fault,      \* "none", "ub" (undefined behaviour was executed), "abort" (process ended)
    calls       \* the number of calls issued so far

vars == <<heap, store, registry, mutex, poisoned, shardOf, pc, call, last, now,
          destroyed, fault, calls>>

\* ------------------------------------------------------- strings and values

Digits == <<"0", "1", "2", "3", "4", "5", "6", "7", "8", "9">>

RECURSIVE ToStr(_)
\* i64::to_string of a non-negative timestamp.
ToStr(n) == IF n < 10 THEN Digits[n + 1] ELSE ToStr(n \div 10) \o Digits[(n % 10) + 1]

\* The number a decimal string of the model denotes (the strings stored under
\* "entry" and "modified" are all of this kind).
NumOf(s) == CHOOSE n \in 0..99 : ToStr(n) = s

\* Option<String>: None is <<>>, Some(s) is <<s>>.
None == <<>>
Some(s) == <<s>>

\* Uuid::parse_str: None for a malformed string.
ParseUuid(s) ==
    CASE s \in {"u1", "U1"} -> Some(1)
      [] s = "u2" -> Some(2)
      [] OTHER -> None

\* Uuid::to_string
UuidToString(u) == IF u = 1 THEN "u1" ELSE "u2"

\* ------------------------------------------------------------------ the store

\* A replica: its tasks, each a map from property name to string value; the
\* operations committed since the last synchronization; and the working set, a
\* vector of optional uuids.
\*
\* The operations are kept in segments, one per undo point and one for what
\* precedes the first: a segment is only ever reversed as a whole, so it is
\* kept as the task table its operations replaced (before), whether it starts
\* with an UndoPoint (marked) and whether it holds any other operation (dirty).
EmptyTask == [k \in {} |-> ""]
NoTasks == [u \in {} |-> EmptyTask]
Segment(marked, tasks) == [marked |-> marked, before |-> tasks, dirty |-> FALSE]
EmptyStore == [tasks |-> NoTasks, log |-> <<Segment(FALSE, NoTasks)>>, ws |-> <<>>]
NoStore == EmptyStore

OpCreate(u) == [type |-> "Create", uuid |-> u, property |-> "", value |-> None]
OpUpdate(u, p, v) == [type |-> "Update", uuid |-> u, property |-> p, value |-> v]
OpUndoPoint == [type |-> "UndoPoint", uuid |-> 0, property |-> "", value |-> None]

\* One operation applied to the task table.
ApplyOp(tasks, op) ==
    CASE op.type = "Create" ->
            IF op.uuid \in DOMAIN tasks THEN tasks
            ELSE [u \in DOMAIN tasks \cup {op.uuid} |->
                     IF u = op.uuid THEN EmptyTask ELSE tasks[u]]
      [] op.type = "Update" ->
            IF op.uuid \notin DOMAIN tasks THEN tasks
            ELSE LET old == tasks[op.uuid]
                     new == IF op.value = None
                            THEN [k \in DOMAIN old \ {op.property} |-> old[k]]
                            ELSE [k \in DOMAIN old \cup {op.property} |->
                                     IF k = op.property THEN op.value[1] ELSE old[k]]
                 IN [tasks EXCEPT ![op.uuid] = new]
      [] OTHER -> tasks

RECURSIVE ApplyOps(_, _)
ApplyOps(tasks, ops) ==
    IF ops = <<>> THEN tasks ELSE ApplyOps(ApplyOp(tasks, Head(ops)), Tail(ops))

\* The operations of a batch added to the log.
RECURSIVE LogOps(_, _, _)
LogOps(log, tasks, ops) ==
    IF ops = <<>> THEN log
    ELSE LogOps(IF Head(ops).type = "UndoPoint"
                THEN Append(log, Segment(TRUE, tasks))
                ELSE [log EXCEPT ![Len(log)].dirty = TRUE],
                ApplyOp(tasks, Head(ops)), Tail(ops))

\* Replica::commit_operations: the whole batch in one storage transaction.
Commit_Replace(st, ops) == [st EXCEPT !.tasks = ApplyOps(NoTasks, ops)]
Commit(st, ops) ==
    [st EXCEPT !.tasks = ApplyOps(@, ops), !.log = LogOps(@, st.tasks, ops)]

\* A handler that hits an Err while it builds its batch (k operations were
\* built), or whose commit_operations fails (k = Len(ops)), returns early: the
\* Operations value is local and is dropped.
AfterFailure_Partial(st, ops, k) == [st EXCEPT !.tasks = ApplyOps(@, SubSeq(ops, 1, k))]
AfterFailure(st, ops, k) == st

\* What the storage may answer to a handler: success, or an error.
StoreOutcomes == {"ok", "fail"}

\* ------------------------------------------------------ calls and their results

NoCall == [op |-> "none", h |-> 0, id |-> "", a1 |-> "", a2 |-> "", flag |-> FALSE]
NoRet == [thread |-> NoThread, op |-> "none", log |-> "", val |-> "", recovered |-> FALSE]
NewCall(op, h, id, a1, a2) ==
    [op |-> op, h |-> h, id |-> id, a1 |-> a1, a2 |-> a2, flag |-> FALSE]

\* The return of a handler to the host: the boundary value and the last log line.
Return(t, op, log, val, rec) ==
    /\ pc' = [pc EXCEPT ![t] = "idle"]
    /\ call' = [call EXCEPT ![t] = NoCall]
    /\ last' = [thread |-> t, op |-> op, log |-> log, val |-> val, recovered |-> rec]

\* A thread holds the Ref that REPLICA_LOCKS.get returned (a read lock on the
\* key's shard) for the whole match of with_replica_lock: while it waits for the
\* mutex and while the body runs.
HoldsRef(t) == pc[t] \in {"lock", "body"}
Readers(s) == {t \in Threads : HoldsRef(t) /\ shardOf[call[t].h] = s}

\* REPLICA_LOCKS.insert and REPLICA_LOCKS.remove take the write lock of the
\* key's shard, which waits for every Ref into that shard to be dropped.
ShardWritable(h) == Readers(shardOf[h]) = {}

\* The part of a locked handler before the macro: the null check, the argument
\* conversions (bad: one of them failed), then REPLICA_LOCKS.get.
Invoke_NoNullCheck(t, c, bad, nullVal, lostVal) ==
    /\ pc[t] = "idle"
    /\ fault # "abort"
    /\ calls < MaxCalls
    /\ calls' = calls + 1
    /\ IF bad THEN Return(t, c.op, "invalid_input", nullVal, FALSE)
       ELSE IF c.h \in registry
            THEN /\ pc' = [pc EXCEPT ![t] = "lock"]
                 /\ call' = [call EXCEPT ![t] = c]
                 /\ last' = NoRet
            ELSE Return(t, c.op, "invalid_pointer", lostVal, FALSE)
    /\ UNCHANGED <<heap, store, registry, mutex, poisoned, shardOf, now, destroyed, fault>>
Invoke(t, c, bad, nullVal, lostVal) ==
    /\ pc[t] = "idle"
    /\ fault # "abort"
    /\ calls < MaxCalls
    /\ calls' = calls + 1
    /\ IF c.h = 0 THEN Return(t, c.op, "null_pointer", nullVal, FALSE)
       ELSE IF bad THEN Return(t, c.op, "invalid_input", nullVal, FALSE)
       ELSE IF c.h \in registry
            THEN /\ pc' = [pc EXCEPT ![t] = "lock"]
                 /\ call' = [call EXCEPT ![t] = c]
                 /\ last' = NoRet
            ELSE Return(t, c.op, "invalid_pointer", lostVal, FALSE)
    /\ UNCHANGED <<heap, store, registry, mutex, poisoned, shardOf, now, destroyed, fault>>

\* lock_arc.lock(): Ok(guard), or Err(poisoned) and poisoned.into_inner().
\* Either way the guard is held and the body runs.
AcquireOutcome_Fail(p) == IF p THEN "fail" ELSE "enter"
AcquireOutcome(p) == "enter"

\* Mutex::lock blocks while another thread holds the mutex.
MutexFree_Always(h) == TRUE
MutexFree_UnlessPoisoned(h) == mutex[h] = NoThread \/ poisoned[h]
MutexFree(h) == mutex[h] = NoThread

\* The macro's acquisition step.
with_replica_lock(t) ==
    /\ pc[t] = "lock"
    /\ fault # "abort"
    /\ MutexFree(call[t].h)
    /\ IF AcquireOutcome(poisoned[call[t].h]) = "enter"
       THEN /\ mutex' = [mutex EXCEPT ![call[t].h] = t]
            /\ pc' = [pc EXCEPT ![t] = "body"]
            /\ call' = [call EXCEPT ![t].flag = poisoned[call[t].h]]
            /\ last' = NoRet
       ELSE /\ Return(t, call[t].op, "lock_failed", "", FALSE)
            /\ UNCHANGED mutex
    /\ UNCHANGED <<heap, store, registry, poisoned, shardOf, now, destroyed, fault, calls>>

\* A thread is in the body of op on a live replica.
InBody(t, op) ==
    /\ pc[t] = "body"
    /\ call[t].op = op
    /\ fault # "abort"
    /\ heap[call[t].h] = "live"

\* The end of the macro's block: _guard is dropped, then the Ref, and the
\* handler returns.
Leave_KeepLock(t, log, val) ==
    /\ Return(t, call[t].op, log, val, call[t].flag)
    /\ UNCHANGED <<mutex, heap, registry, poisoned, shardOf, now, destroyed, fault, calls>>
Leave(t, log, val) ==
    /\ mutex' = [mutex EXCEPT ![call[t].h] = NoThread]
    /\ Return(t, call[t].op, log, val, call[t].flag)
    /\ UNCHANGED <<heap, registry, poisoned, shardOf, now, destroyed, fault, calls>>

\* A body that builds the batch ops and commits it, with every early return.
RunBatch(t, ops, F, okVal, errVal) ==
    \E f \in F :
        IF f = "ok"
        THEN /\ store' = [store EXCEPT ![call[t].h] = Commit(@, ops)]
             /\ Leave(t, "committed", okVal)
        ELSE \E k \in 0..Len(ops) :
             /\ store' = [store EXCEPT ![call[t].h] = AfterFailure(@, ops, k)]
             /\ Leave(t, IF k = Len(ops) THEN "commit_failed" ELSE "build_failed", errVal)

\* ------------------------------------------------------------------ lifecycle

\* nativeInitialize up to Box::into_raw: the storage is opened (or not) and the
\* replica is boxed at whatever free address the allocator returns.
InitializeOpen(t) ==
    /\ pc[t] = "idle"
    /\ fault # "abort"
    /\ calls < MaxCalls
    /\ calls' = calls + 1
    /\ \E opened \in BOOLEAN :
        IF ~opened
        THEN /\ Return(t, "initialize", "storage_failed", 0, FALSE)
             /\ UNCHANGED <<heap, store>>
        ELSE \E a \in Addrs :
             /\ heap[a] = "free"
             /\ heap' = [heap EXCEPT ![a] = "live"]
             /\ store' = [store EXCEPT ![a] = EmptyStore]
             /\ pc' = [pc EXCEPT ![t] = "insert"]
             /\ call' = [call EXCEPT ![t] = NewCall("initialize", a, "", "", "")]
             /\ last' = NoRet
    /\ UNCHANGED <<registry, mutex, poisoned, shardOf, now, destroyed, fault>>

\* DashMap::insert: the key is in the map afterwards.
RegistryInsert_Skip(reg, a) == reg
RegistryInsert(reg, a) == reg \cup {a}

\* REPLICA_LOCKS.insert(replica_ptr, Arc::new(Mutex::new(()))), then the return.
InitializeInsert(t) ==
    /\ pc[t] = "insert"
    /\ fault # "abort"
    /\ ShardWritable(call[t].h)
    /\ registry' = RegistryInsert(registry, call[t].h)
    /\ mutex' = [mutex EXCEPT ![call[t].h] = NoThread]
    /\ poisoned' = [poisoned EXCEPT ![call[t].h] = FALSE]
    /\ Return(t, "initialize", "initialized", call[t].h, FALSE)
    /\ UNCHANGED <<heap, store, shardOf, now, destroyed, fault, calls>>

nativeInitialize(t) == InitializeOpen(t) \/ InitializeInsert(t)

\* nativeDestroy: the null check.
DestroyCall(t, h) ==
    /\ pc[t] = "idle"
    /\ fault # "abort"
    /\ calls < MaxCalls
    /\ calls' = calls + 1
    /\ IF h = 0 THEN Return(t, "destroy", "null_pointer", "void", FALSE)
       ELSE /\ pc' = [pc EXCEPT ![t] = "remove"]
            /\ call' = [call EXCEPT ![t] = NewCall("destroy", h, "", "", "")]
            /\ last' = NoRet
    /\ UNCHANGED <<heap, store, registry, mutex, poisoned, shardOf, now, destroyed, fault>>

\* REPLICA_LOCKS.remove(&replica_ptr): Some (info) or None (warn); either way
\* the handler goes on to the unsafe block.
DestroyRemove(t) ==
    /\ pc[t] = "remove"
    /\ fault # "abort"
    /\ ShardWritable(call[t].h)
    /\ registry' = registry \ {call[t].h}
    /\ destroyed' = IF call[t].h \in registry THEN destroyed \cup {call[t].h} ELSE destroyed
    /\ call' = [call EXCEPT ![t].flag = call[t].h \in registry]
    /\ pc' = [pc EXCEPT ![t] = "drop"]
    /\ last' = NoRet
    /\ UNCHANGED <<heap, store, mutex, poisoned, shardOf, now, fault, calls>>

\* drop(Box::from_raw(replica_ptr as *mut Replica)): frees the box at the
\* address.  With no box there (never allocated, or freed already) this is
\* undefined behaviour: the process goes on with a corrupted heap, or aborts.
DestroyDrop(t) ==
    /\ pc[t] = "drop"
    /\ fault # "abort"
    /\ IF heap[call[t].h] = "live"
       THEN /\ heap' = [heap EXCEPT ![call[t].h] = "free"]
            /\ store' = [store EXCEPT ![call[t].h] = NoStore]
            /\ UNCHANGED fault
       ELSE /\ fault' \in {"ub", "abort"}
            /\ UNCHANGED <<heap, store>>
    /\ Return(t, "destroy", IF call[t].flag THEN "destroyed" ELSE "no_mutex_found", "void", FALSE)
    /\ UNCHANGED <<registry, mutex, poisoned, shardOf, now, destroyed, calls>>

nativeDestroy(t) == (\E h \in Handles : DestroyCall(t, h)) \/ DestroyRemove(t) \/ DestroyDrop(t)

\* The body of any handler on a handle whose box has been freed under it:
\* &mut *(replica_ptr as *mut Replica) dangles.  Undefined behaviour; the
\* handler returns its log-only outcome or the process aborts.
DanglingBody(t) ==
    /\ pc[t] = "body"
    /\ fault # "abort"
    /\ heap[call[t].h] # "live"
    /\ fault' \in {"ub", "abort"}
    /\ mutex' = [mutex EXCEPT ![call[t].h] = NoThread]
    /\ Return(t, call[t].op, "dangling", "", call[t].flag)
    /\ UNCHANGED <<heap, store, registry, poisoned, shardOf, now, destroyed, calls>>

\* A panic in the body of a handler (as the thread of test_timeout_handling
\* panics while it holds the guard): unwinding drops the guard, which sets the
\* poison flag and unlocks; the store is as the last commit left it.  No
\* handler catches the panic (only replica.sync runs inside catch_unwind), so
\* it unwinds out of the extern "system" function: the process aborts, or the
\* behaviour is undefined, depending on the toolchain.
PanicInBody(t) ==
    /\ pc[t] = "body"
    /\ fault # "abort"
    /\ heap[call[t].h] = "live"
    /\ poisoned' = [poisoned EXCEPT ![call[t].h] = TRUE]
    /\ mutex' = [mutex EXCEPT ![call[t].h] = NoThread]
    /\ fault' \in {"ub", "abort"}
    /\ Return(t, call[t].op, "panicked", "unwind", call[t].flag)
    /\ UNCHANGED <<heap, store, registry, shardOf, now, destroyed, calls>>

\* The wall clock moves (it is not monotonic: it can be set back).
Tick ==
    /\ fault # "abort"
    /\ now' \in Clock \ {now}
    /\ last' = NoRet
    /\ UNCHANGED <<heap, store, registry, mutex, poisoned, shardOf, pc, call,
                   destroyed, fault, calls>>

\* ------------------------------------------------------------ the commands

\* The strings of the model a host may pass as a tag.
TagStrs == {"work", "home", "bad tag"}

\* The property names the task map uses for a tag and for an annotation.
TagKey(tag) == "tag_" \o tag
AnnotationKey(secs) == "annotation_" \o ToStr(secs)

\* Tag::try_from: None for a string that is no tag.
ParseTag(s) == IF s \in {"work", "home"} THEN Some(s) ELSE None

\* The match on status_str of nativeTaskSetStatus.
ParseStatus_Any(s) == Some(s)
ParseStatus(s) == IF s \in {"pending", "completed", "deleted"} THEN Some(s) ELSE None

\* chrono::DateTime::from_timestamp(secs, 0): None beyond the representable range.
MaxTimestamp == 9
FromTimestamp(secs) == IF secs <= MaxTimestamp THEN Some(secs) ELSE None

Stamp(u, ts) == OpUpdate(u, "modified", Some(ts))

\* The batch of nativeCreateTask: create_task, then "entry" and "modified".
CreateTaskOps_NoEntry(u, ts) == <<OpCreate(u), Stamp(u, ts)>>
CreateTaskOps(u, ts) == <<OpCreate(u), OpUpdate(u, "entry", Some(ts)), Stamp(u, ts)>>

\* The batch of nativeTaskSetDescription.
SetDescriptionOps_NoStamp(u, d, ts) == <<OpUpdate(u, "description", Some(d))>>
SetDescriptionOps(u, d, ts) == <<OpUpdate(u, "description", Some(d)), Stamp(u, ts)>>

\* The batch of nativeTaskSetStatus.
SetStatusOps(u, s, ts) == <<OpUpdate(u, "status", Some(s)), Stamp(u, ts)>>

\* The batch of nativeTaskSetValue: no stamp when the key is "modified".
SetValueOps_AlwaysStamp(u, k, v, ts) == <<OpUpdate(u, k, v), Stamp(u, ts)>>
SetValueOps(u, k, v, ts) ==
    IF k # "modified" THEN <<OpUpdate(u, k, v), Stamp(u, ts)>> ELSE <<OpUpdate(u, k, v)>>

\* The batches of nativeTaskAddTag and nativeTaskRemoveTag.
AddTagOps(u, tag, ts) == <<OpUpdate(u, TagKey(tag), Some("")), Stamp(u, ts)>>
RemoveTagOps_Keep(u, tag, ts) == <<Stamp(u, ts)>>
RemoveTagOps(u, tag, ts) == <<OpUpdate(u, TagKey(tag), None), Stamp(u, ts)>>

\* The batches of nativeTaskAddAnnotation and nativeTaskRemoveAnnotation.
AddAnnotationOps(u, entry, text, ts) ==
    <<OpUpdate(u, AnnotationKey(entry), Some(text)), Stamp(u, ts)>>
RemoveAnnotationOps_All(u, entry, ts) ==
    [e \in 1..(MaxClock + 1) |-> OpUpdate(u, AnnotationKey(e - 1), None)] \o <<Stamp(u, ts)>>
RemoveAnnotationOps(u, entry, ts) == <<OpUpdate(u, AnnotationKey(entry), None), Stamp(u, ts)>>

RECURSIVE SetToSeq(_)
SetToSeq(S) == IF S = {} THEN <<>> ELSE LET x == CHOOSE y \in S : TRUE IN <<x>> \o SetToSeq(S \ {x})

\* The batch of clear_all_tasks_internal: an undo point, then set_status(Deleted)
\* for every task of all_tasks(). The function adds no update of "modified";
\* a setter of the task is taken to add the update of its own property only,
\* as the handlers do when they add the update of "modified" themselves.
ClearAllOps_NoUndoPoint(tasks) ==
    [i \in 1..Cardinality(DOMAIN tasks) |->
        OpUpdate(SetToSeq(DOMAIN tasks)[i], "status", Some("deleted"))]
ClearAllOps(tasks) ==
    <<OpUndoPoint>> \o [i \in 1..Cardinality(DOMAIN tasks) |->
                          OpUpdate(SetToSeq(DOMAIN tasks)[i], "status", Some("deleted"))]

Tasks(t) == store[call[t].h].tasks
CallUuid(t) == ParseUuid(call[t].id)[1]

\* The batch the body of the call in progress on thread t builds: its
\* timestamp is read from the clock inside the body.
BatchOf(t) ==
    LET c == call[t]
        u == CallUuid(t)
        ts == ToStr(now)
    IN CASE c.op = "createTask" -> CreateTaskOps(u, ts)
         [] c.op = "setDescription" -> SetDescriptionOps(u, c.a1, ts)
         [] c.op = "setStatus" -> SetStatusOps(u, ParseStatus(c.a1)[1], ts)
         [] c.op = "setValue" -> SetValueOps(u, c.a1, c.a2, ts)
         [] c.op = "addTag" -> AddTagOps(u, ParseTag(c.a1)[1], ts)
         [] c.op = "removeTag" -> RemoveTagOps(u, ParseTag(c.a1)[1], ts)
         [] c.op = "addAnnotation" -> AddAnnotationOps(u, now, c.a1, ts)
         [] c.op = "removeAnnotation" -> RemoveAnnotationOps(u, FromTimestamp(c.a1)[1], ts)
         [] c.op = "clearAll" -> ClearAllOps(Tasks(t))
         [] c.op = "addUndoPoint" -> <<OpUndoPoint>>
         [] OTHER -> <<>>

\* A body that loads its task with get_task (Ok(None): warn and return) and
\* then runs the batch.
OnTask_Upsert(t, ops, F) == RunBatch(t, ops, F, "void", "void")
OnTask(t, ops, F) ==
    IF CallUuid(t) \in DOMAIN Tasks(t)
    THEN RunBatch(t, ops, F, "void", "void")
    ELSE /\ UNCHANGED store
         /\ Leave(t, "not_found", "void")

nativeCreateTask(t, I) ==
    \/ \E h \in I.handles, s \in I.ids :
         Invoke(t, NewCall("createTask", h, s, "", ""), ParseUuid(s) = None, "void", "void")
    \/ /\ InBody(t, "createTask")
       /\ RunBatch(t, BatchOf(t), I.outcomes, "void", "void")

nativeTaskSetDescription(t, I) ==
    \/ \E h \in I.handles, s \in I.ids, d \in I.descriptions :
         Invoke(t, NewCall("setDescription", h, s, d, ""), ParseUuid(s) = None, "void", "void")
    \/ /\ InBody(t, "setDescription")
       /\ OnTask(t, BatchOf(t), I.outcomes)

nativeTaskSetStatus(t, I) ==
    \/ \E h \in I.handles, s \in I.ids, st \in I.statuses :
         Invoke(t, NewCall("setStatus", h, s, st, ""),
                ParseUuid(s) = None \/ ParseStatus(st) = None, "void", "void")
    \/ /\ InBody(t, "setStatus")
       /\ OnTask(t, BatchOf(t), I.outcomes)

nativeTaskSetValue(t, I) ==
    \/ \E h \in I.handles, s \in I.ids, k \in I.keys, v \in I.values :
         Invoke(t, NewCall("setValue", h, s, k, v), ParseUuid(s) = None, "void", "void")
    \/ /\ InBody(t, "setValue")
       /\ OnTask(t, BatchOf(t), I.outcomes)

nativeTaskAddTag(t, I) ==
    \/ \E h \in I.handles, s \in I.ids, g \in I.tags :
         Invoke(t, NewCall("addTag", h, s, g, ""),
                ParseUuid(s) = None \/ ParseTag(g) = None, "void", "void")
    \/ /\ InBody(t, "addTag")
       /\ OnTask(t, BatchOf(t), I.outcomes)

nativeTaskRemoveTag(t, I) ==
    \/ \E h \in I.handles, s \in I.ids, g \in I.tags :
         Invoke(t, NewCall("removeTag", h, s, g, ""),
                ParseUuid(s) = None \/ ParseTag(g) = None, "void", "void")
    \/ /\ InBody(t, "removeTag")
       /\ OnTask(t, BatchOf(t), I.outcomes)

nativeTaskAddAnnotation(t, I) ==
    \/ \E h \in I.handles, s \in I.ids, x \in I.texts :
         Invoke(t, NewCall("addAnnotation", h, s, x, ""), ParseUuid(s) = None, "void", "void")
    \/ /\ InBody(t, "addAnnotation")
       /\ OnTask(t, BatchOf(t), I.outcomes)

nativeTaskRemoveAnnotation(t, I) ==
    \/ \E h \in I.handles, s \in I.ids, e \in I.entries :
         Invoke(t, NewCall("removeAnnotation", h, s, e, ""),
                ParseUuid(s) = None \/ FromTimestamp(e) = None, "void", "void")
    \/ /\ InBody(t, "removeAnnotation")
       /\ OnTask(t, BatchOf(t), I.outcomes)

\* A task belongs to the working set while its status is pending.
InWorkingSet(task) == "status" \in DOMAIN task /\ task["status"] = "pending"

\* Replica::rebuild_working_set(true): the entries that still belong keep their
\* order and are renumbered without gaps, then the other pending tasks follow.
Rebuild(st) ==
    LET Stays(e) == e # None /\ e[1] \in DOMAIN st.tasks /\ InWorkingSet(st.tasks[e[1]])
        kept == SelectSeq(st.ws, Stays)
        added == SetToSeq({u \in DOMAIN st.tasks :
                             InWorkingSet(st.tasks[u])
                             /\ \A i \in 1..Len(kept) : kept[i] # Some(u)})
    IN [st EXCEPT !.ws = kept \o [i \in 1..Len(added) |-> Some(added[i])]]

\* nativeClearAllTasks and clear_all_tasks_internal: the batch is committed,
\* then rebuild_working_set(true) can still fail and make the call return 0.
ClearAllBody_NoRebuild(st, ops) == Commit(st, ops)
ClearAllBody(st, ops) == Rebuild(Commit(st, ops))

nativeClearAllTasks(t, I) ==
    \/ \E h \in I.handles : Invoke(t, NewCall("clearAll", h, "", "", ""), FALSE, 0, 0)
    \/ /\ InBody(t, "clearAll")
       /\ \/ /\ "ok" \in I.outcomes
             /\ store' = [store EXCEPT ![call[t].h] = ClearAllBody(@, BatchOf(t))]
             /\ Leave(t, "committed", 1)
          \/ RunBatch(t, BatchOf(t), I.outcomes \ {"ok"}, 1, 0)
          \/ /\ "fail" \in I.outcomes
             /\ store' = [store EXCEPT ![call[t].h] = Commit(@, BatchOf(t))]
             /\ Leave(t, "rebuild_failed", 0)

\* ------------------------------------------------------ transaction control

\* Replica::get_undo_operations: the operations back to and including the last
\* undo point, or every operation when the log holds no undo point; here,
\* whether that sequence is empty.
UndoOpsEmpty(st) == ~st.log[Len(st.log)].marked /\ ~st.log[Len(st.log)].dirty

\* Replica::commit_reversed_operations: the operations are reversed and taken
\* off the log, the undo point with them.
Reversed(st) ==
    LET seg == st.log[Len(st.log)]
    IN [st EXCEPT !.tasks = seg.before,
                  !.log = IF Len(@) > 1 THEN SubSeq(@, 1, Len(@) - 1)
                          ELSE <<Segment(FALSE, seg.before)>>]

\* What the library may answer to an undo: the reversal is applied, it is
\* refused because the log changed under it, or the storage fails.
UndoOutcomes == {"ok", "conflict", "fail"}

\* The body of nativeUndo: its log line, its boundary value and the store after.
Undo_NoReverse(st, f) == [log |-> "undone", val |-> 1, st |-> st]
Undo(st, f) ==
    IF f = "fail" THEN [log |-> "store_error", val |-> 0, st |-> st]
    ELSE IF UndoOpsEmpty(st) THEN [log |-> "nothing_to_undo", val |-> 0, st |-> st]
    ELSE IF f = "conflict" THEN [log |-> "undo_conflict", val |-> 0, st |-> st]
    ELSE IF st.log[Len(st.log)].dirty
         THEN [log |-> "undone", val |-> 1, st |-> Reversed(st)]
         ELSE [log |-> "undo_conflict", val |-> 0, st |-> Reversed(st)]

nativeUndo(t, I) ==
    \/ \E h \in I.handles : Invoke(t, NewCall("undo", h, "", "", ""), FALSE, 0, 0)
    \/ /\ InBody(t, "undo")
       /\ \E f \in I.reversals :
            /\ store' = [store EXCEPT ![call[t].h] = Undo(@, f).st]
            /\ Leave(t, Undo(store[call[t].h], f).log, Undo(store[call[t].h], f).val)

nativeAddUndoPoint(t, I) ==
    \/ \E h \in I.handles, m \in I.messages :
         Invoke(t, NewCall("addUndoPoint", h, "", m, ""), FALSE, "void", "void")
    \/ /\ InBody(t, "addUndoPoint")
       /\ \E f \in I.outcomes :
            IF f = "ok"
            THEN /\ store' = [store EXCEPT ![call[t].h] = Commit(@, BatchOf(t))]
                 /\ Leave(t, "committed", "void")
            ELSE /\ store' = [store EXCEPT ![call[t].h] =
                                 AfterFailure(@, BatchOf(t), Len(BatchOf(t)))]
                 /\ Leave(t, "commit_failed", "void")

\* The body of nativeCommit on the replica: rebuild_working_set(true) and
\* nothing else; no Operations are built and commit_operations is not called.
CommitBody_Batch(st) == Rebuild(Commit(st, <<OpUndoPoint>>))
CommitBody(st) == Rebuild(st)

nativeCommit(t, I) ==
    \/ \E h \in I.handles : Invoke(t, NewCall("commit", h, "", "", ""), FALSE, "void", "void")
    \/ /\ InBody(t, "commit")
       /\ \E f \in I.outcomes :
            IF f = "ok"
            THEN /\ store' = [store EXCEPT ![call[t].h] = CommitBody(@)]
                 /\ Leave(t, "rebuilt", "void")
            ELSE /\ UNCHANGED store
                 /\ Leave(t, "rebuild_failed", "void")

\* ---------------------------------------------------------- synchronization

\* The configuration texts of the model a host may pass to nativeSync, and
\* serde_json::from_str on each: the document, or None for a text that is not
\* JSON.  A document is a record of its string fields; "credentials" is a
\* document of its own.
ConfigTexts ==
    {"{type:gcp,bucket:b,encryption_secret:s}",
     "{type:aws,bucket:b,encryption_secret:s,region:r,credentials:{type:default}}",
     "{type:aws,bucket:b,encryption_secret:s,region:r,credentials:{type:access_key,access_key_id:k,secret_access_key:x}}",
     "{type:aws,bucket:b,encryption_secret:s,region:r,credentials:{type:profile,profile_name:p}}",
     "not json",
     "{}",
     "{bucket:b,encryption_secret:s}",
     "{type:gcp,encryption_secret:s}",
     "{type:gcp,bucket:b}",
     "{type:gcp,bucket:b,encryption_secret:}",
     "{type:aws,bucket:b,encryption_secret:s,credentials:{type:default}}",
     "{type:aws,bucket:b,encryption_secret:s,region:r}",
     "{type:aws,bucket:b,encryption_secret:s,region:r,credentials:{}}",
     "{type:aws,bucket:b,encryption_secret:s,region:r,credentials:{type:access_key,secret_access_key:x}}",
     "{type:aws,bucket:b,encryption_secret:s,region:r,credentials:{type:access_key,access_key_id:k}}",
     "{type:aws,bucket:b,encryption_secret:s,region:r,credentials:{type:profile}}",
     "{type:aws,bucket:b,encryption_secret:s,region:r,credentials:{type:sso}}",
     "{type:local,bucket:b,encryption_secret:s}",
     "{type:local}",
     "{type:local,bucket:b}",
     "{type:gcp}",
     "{type:aws,bucket:b,encryption_secret:}",
     "{type:aws,bucket:b,encryption_secret:s}"}

AwsDoc(creds) ==
    [type |-> "aws", bucket |-> "b", encryption_secret |-> "s", region |-> "r",
     credentials |-> creds]

FromStr(s) ==
    CASE s = "{type:gcp,bucket:b,encryption_secret:s}" ->
            Some([type |-> "gcp", bucket |-> "b", encryption_secret |-> "s"])
      [] s = "{type:aws,bucket:b,encryption_secret:s,region:r,credentials:{type:default}}" ->
            Some(AwsDoc([type |-> "default"]))
      [] s = "{type:aws,bucket:b,encryption_secret:s,region:r,credentials:{type:access_key,access_key_id:k,secret_access_key:x}}" ->
            Some(AwsDoc([type |-> "access_key", access_key_id |-> "k",
                         secret_access_key |-> "x"]))
      [] s = "{type:aws,bucket:b,encryption_secret:s,region:r,credentials:{type:profile,profile_name:p}}" ->
            Some(AwsDoc([type |-> "profile", profile_name |-> "p"]))
      [] s = "{}" -> Some([k \in {} |-> ""])
      [] s = "{bucket:b,encryption_secret:s}" ->
            Some([bucket |-> "b", encryption_secret |-> "s"])
      [] s = "{type:gcp,encryption_secret:s}" ->
            Some([type |-> "gcp", encryption_secret |-> "s"])
      [] s = "{type:gcp,bucket:b}" -> Some([type |-> "gcp", bucket |-> "b"])
      [] s = "{type:gcp,bucket:b,encryption_secret:}" ->
            Some([type |-> "gcp", bucket |-> "b", encryption_secret |-> ""])
      [] s = "{type:aws,bucket:b,encryption_secret:s,credentials:{type:default}}" ->
            Some([type |-> "aws", bucket |-> "b", encryption_secret |-> "s",
                  credentials |-> [type |-> "default"]])
      [] s = "{type:aws,bucket:b,encryption_secret:s,region:r}" ->
            Some([type |-> "aws", bucket |-> "b", encryption_secret |-> "s", region |-> "r"])
      [] s = "{type:aws,bucket:b,encryption_secret:s,region:r,credentials:{}}" ->
            Some(AwsDoc([k \in {} |-> ""]))
      [] s = "{type:aws,bucket:b,encryption_secret:s,region:r,credentials:{type:access_key,secret_access_key:x}}" ->
            Some(AwsDoc([type |-> "access_key", secret_access_key |-> "x"]))
      [] s = "{type:aws,bucket:b,encryption_secret:s,region:r,credentials:{type:access_key,access_key_id:k}}" ->
            Some(AwsDoc([type |-> "access_key", access_key_id |-> "k"]))
      [] s = "{type:aws,bucket:b,encryption_secret:s,region:r,credentials:{type:profile}}" ->
            Some(AwsDoc([type |-> "profile"]))
      [] s = "{type:aws,bucket:b,encryption_secret:s,region:r,credentials:{type:sso}}" ->
            Some(AwsDoc([type |-> "sso"]))
      [] s = "{type:local,bucket:b,encryption_secret:s}" ->
            Some([type |-> "local", bucket |-> "b", encryption_secret |-> "s"])
      [] s = "{type:local}" -> Some([type |-> "local"])
      [] s = "{type:local,bucket:b}" -> Some([type |-> "local", bucket |-> "b"])
      [] s = "{type:gcp}" -> Some([type |-> "gcp"])
      [] s = "{type:aws,bucket:b,encryption_secret:}" ->
            Some([type |-> "aws", bucket |-> "b", encryption_secret |-> ""])
      [] s = "{type:aws,bucket:b,encryption_secret:s}" ->
            Some([type |-> "aws", bucket |-> "b", encryption_secret |-> "s"])
      [] OTHER -> None

\* Value::get(k): whether the document has the field.
Has(d, k) == k \in DOMAIN d

\* The credentials of an "aws" document: the message of the first check that
\* fails, or None.
CredentialsError(c) ==
    IF ~Has(c, "type") THEN Some("ERROR: Missing 'type' field in AWS credentials")
    ELSE CASE c["type"] = "access_key" ->
                IF ~Has(c, "access_key_id") THEN Some("ERROR: Missing 'access_key_id' field")
                ELSE IF ~Has(c, "secret_access_key")
                     THEN Some("ERROR: Missing 'secret_access_key' field")
                     ELSE None
           [] c["type"] = "profile" ->
                IF ~Has(c, "profile_name") THEN Some("ERROR: Missing 'profile_name' field")
                ELSE None
           [] c["type"] = "default" -> None
           [] OTHER -> Some("ERROR: Unknown AWS credential type: " \o c["type"])

\* The checks of nativeSync on the parsed document, in the order of the code:
\* the message of the first one that fails, or None when a ServerConfig is
\* built.
DocumentError(d) ==
    IF ~Has(d, "type") THEN Some("ERROR: Missing 'type' field")
    ELSE IF ~Has(d, "bucket") THEN Some("ERROR: Missing 'bucket' field")
    ELSE IF ~Has(d, "encryption_secret")
         THEN Some("ERROR: Missing 'encryption_secret' field")
    ELSE IF d["encryption_secret"] = "" THEN Some("ERROR: Empty encryption secret")
    ELSE CASE d["type"] = "gcp" -> None
           [] d["type"] = "aws" ->
                IF ~Has(d, "region") THEN Some("ERROR: Missing 'region' field for AWS")
                ELSE IF ~Has(d, "credentials")
                     THEN Some("ERROR: Missing 'credentials' field for AWS")
                     ELSE CredentialsError(d["credentials"])
           [] OTHER -> Some("ERROR: Unknown server type: " \o d["type"])

\* The part of nativeSync from the parse of the text to the ServerConfig.
ConfigError_Lax(s) == None
ConfigError_SecretFirst(s) ==
    IF FromStr(s) = None THEN Some("ERROR: Invalid JSON - expected value")
    ELSE IF Has(FromStr(s)[1], "type") /\ ~Has(FromStr(s)[1], "encryption_secret")
         THEN Some("ERROR: Missing 'encryption_secret' field")
         ELSE DocumentError(FromStr(s)[1])
ConfigError(s) ==
    IF FromStr(s) = None THEN Some("ERROR: Invalid JSON - expected value")
    ELSE DocumentError(FromStr(s)[1])

\* The part of nativeSync before the macro: the null check, the configuration,
\* then REPLICA_LOCKS.get.
SyncCall(t, h, s) ==
    /\ pc[t] = "idle"
    /\ fault # "abort"
    /\ calls < MaxCalls
    /\ calls' = calls + 1
    /\ IF h = 0 THEN Return(t, "sync", "null_pointer", "ERROR: Null replica pointer", FALSE)
       ELSE IF ConfigError(s) # None
            THEN Return(t, "sync", "invalid_input", ConfigError(s)[1], FALSE)
       ELSE IF h \in registry
            THEN /\ pc' = [pc EXCEPT ![t] = "lock"]
                 /\ call' = [call EXCEPT ![t] = NewCall("sync", h, "", s, "")]
                 /\ last' = NoRet
            ELSE Return(t, "sync", "invalid_pointer",
                        "ERROR: Failed to acquire replica lock", FALSE)
    /\ UNCHANGED <<heap, store, registry, mutex, poisoned, shardOf, now, destroyed, fault>>

\* Replica::sync that succeeded: the operations of the log are on the server
\* (no other replica has sent any).
Synced(st) == [st EXCEPT !.log = <<Segment(FALSE, st.tasks)>>]

\* What the server may do to a sync: into_server fails; the sync succeeds,
\* fails, or panics inside catch_unwind.
ServerOutcomes == {"ok", "no_server", "sync_failed", "sync_panicked"}

\* catch_unwind around replica.sync: the panic is caught inside the block, the
\* guard is not unwound through, and the handler goes on to build its result.
CaughtPanic_Propagates(f) == IF f = "sync_panicked" THEN "unwind" ELSE "result"
CaughtPanic(f) == "result"

\* The result text of the body of nativeSync.
SyncResult_AlwaysSuccess(f) == "SUCCESS"
SyncResult(f) ==
    CASE f = "ok" -> "SUCCESS"
      [] f = "no_server" -> "ERROR: Failed to create server - invalid configuration"
      [] f = "sync_failed" -> "ERROR: Sync failed - server error"
      [] f = "sync_panicked" ->
           "ERROR: Sync failed due to TLS certificate issue on Android. This is a known limitation with AWS sync on Android."

nativeSync(t, I) ==
    \/ \E h \in I.handles, s \in I.configs : SyncCall(t, h, s)
    \/ /\ InBody(t, "sync")
       /\ \E f \in I.servers, r \in I.outcomes :
            IF CaughtPanic(f) = "result"
            THEN /\ store' = [store EXCEPT ![call[t].h] =
                                 IF f # "ok" THEN @
                                 ELSE IF r = "ok" THEN Rebuild(Synced(@)) ELSE Synced(@)]
                 /\ Leave(t, IF f = "ok" THEN "synced" ELSE f, SyncResult(f))
            ELSE /\ poisoned' = [poisoned EXCEPT ![call[t].h] = TRUE]
                 /\ mutex' = [mutex EXCEPT ![call[t].h] = NoThread]
                 /\ fault' \in {"ub", "abort"}
                 /\ Return(t, "sync", f, "unwind", call[t].flag)
                 /\ UNCHANGED <<heap, store, registry, shardOf, now, destroyed, calls>>

\* ------------------------------------------------------------- the queries

\* nativeGetAllTaskUuids: the keys of all_tasks(), each printed, as an array
\* (in the iteration order of the HashMap, which is arbitrary).
AllTaskUuids_Pending(st) ==
    {UuidToString(u) : u \in {x \in DOMAIN st.tasks : InWorkingSet(st.tasks[x])}}
AllTaskUuids(st) == {UuidToString(u) : u \in DOMAIN st.tasks}

nativeGetAllTaskUuids(t, I) ==
    \/ \E h \in I.handles : Invoke(t, NewCall("getAllTaskUuids", h, "", "", ""), FALSE, {}, {})
    \/ /\ InBody(t, "getAllTaskUuids")
       /\ UNCHANGED store
       /\ \E f \in I.outcomes :
            IF f = "ok" THEN Leave(t, "found", AllTaskUuids(store[call[t].h]))
            ELSE Leave(t, "store_error", {})

\* The tags and the annotations get_tags and get_annotations enumerate.
TagsOf(task) == {g \in TagStrs : TagKey(g) \in DOMAIN task}
AnnotationsOf(task) == {e \in Clock : AnnotationKey(e) \in DOMAIN task}

\* The document of nativeGetTaskData for an existing task: the task data, then
\* tag_<i>, annotation_<i>_entry and annotation_<i>_description, then "uuid"
\* (the caller's string), each insert replacing an earlier one with the same key.
TaskDataDoc(task, uuid_str) ==
    LET tags == SetToSeq(TagsOf(task))
        anns == SetToSeq(AnnotationsOf(task))
        tagKeys == {"tag_" \o ToStr(i - 1) : i \in 1..Len(tags)}
        annEntryKeys == {"annotation_" \o ToStr(i - 1) \o "_entry" : i \in 1..Len(anns)}
        annDescKeys == {"annotation_" \o ToStr(i - 1) \o "_description" : i \in 1..Len(anns)}
        keys == DOMAIN task \cup tagKeys \cup annEntryKeys \cup annDescKeys \cup {"uuid"}
    IN [k \in keys |->
          IF k = "uuid" THEN uuid_str
          ELSE IF k \in annDescKeys
               THEN task[AnnotationKey(anns[CHOOSE i \in 1..Len(anns) :
                        k = "annotation_" \o ToStr(i - 1) \o "_description"])]
          ELSE IF k \in annEntryKeys
               THEN ToStr(anns[CHOOSE i \in 1..Len(anns) :
                        k = "annotation_" \o ToStr(i - 1) \o "_entry"])
          ELSE IF k \in tagKeys
               THEN tags[CHOOSE i \in 1..Len(tags) : k = "tag_" \o ToStr(i - 1)]
          ELSE task[k]]

EmptyDoc == [k \in {} |-> ""]

\* What nativeGetTaskData returns on a live replica: the document, or "{}".
GetTaskData_Stub(st, uuid_str) ==
    LET u == ParseUuid(uuid_str)[1]
    IN TaskDataDoc(IF u \in DOMAIN st.tasks THEN st.tasks[u] ELSE EmptyTask, uuid_str)
GetTaskData(st, uuid_str) ==
    LET u == ParseUuid(uuid_str)[1]
    IN IF u \in DOMAIN st.tasks THEN TaskDataDoc(st.tasks[u], uuid_str) ELSE EmptyDoc

nativeGetTaskData(t, I) ==
    \/ \E h \in I.handles, s \in I.ids :
         Invoke(t, NewCall("getTaskData", h, s, "", ""), ParseUuid(s) = None,
                [null |-> TRUE], [null |-> TRUE])
    \/ /\ InBody(t, "getTaskData")
       /\ UNCHANGED store
       /\ \E f \in I.outcomes :
            IF f = "ok"
            THEN Leave(t, IF CallUuid(t) \in DOMAIN Tasks(t) THEN "found" ELSE "not_found",
                       [null |-> FALSE, doc |-> GetTaskData(store[call[t].h], call[t].id)])
            ELSE Leave(t, "store_error", [null |-> TRUE])

\* The working set as nativeGetUuidForIndex reads it: len() is the length of the
\* vector and by_index(i) its entry at the 0-based index i.
NilUuid == 0
by_index(ws, i) == IF i < Len(ws) THEN ws[i + 1] ELSE None

\* What nativeGetUuidForIndex returns for the jint index on a live replica:
\* the uuid printed, or null.
GetUuidForIndex_NoShift(st, index) ==
    IF index > 0 /\ index <= Len(st.ws)
    THEN LET e == by_index(st.ws, index)
         IN IF e # None /\ e[1] # NilUuid THEN Some(UuidToString(e[1])) ELSE None
    ELSE None
GetUuidForIndex(st, index) ==
    IF index > 0 /\ index <= Len(st.ws)
    THEN LET e == by_index(st.ws, index - 1)
         IN IF e # None /\ e[1] # NilUuid THEN Some(UuidToString(e[1])) ELSE None
    ELSE None

nativeGetUuidForIndex(t, I) ==
    \/ \E h \in I.handles, i \in I.positions :
         Invoke(t, NewCall("getUuidForIndex", h, "", i, ""), FALSE, None, None)
    \/ /\ InBody(t, "getUuidForIndex")
       /\ UNCHANGED store
       /\ \E f \in I.outcomes :
            IF f = "ok"
            THEN Leave(t, IF GetUuidForIndex(store[call[t].h], call[t].a1) # None
                          THEN "found" ELSE "no_task",
                       GetUuidForIndex(store[call[t].h], call[t].a1))
            ELSE Leave(t, "store_error", None)

\* ------------------------------------------------------------ specification

\* The inputs of the hosts of Spec: every handle value (0, registered, stale,
\* never issued) and one well-formed value per other argument; the malformed
\* arguments are those of StoreInputs.
HostInputs ==
    [handles |-> Handles, ids |-> {"u1"}, descriptions |-> {"X"},
     statuses |-> {"deleted"}, keys |-> {"modified"}, values |-> {Some("9")},
     tags |-> {"work"}, texts |-> {"note"}, entries |-> {0},
     outcomes |-> StoreOutcomes]

Init ==
    /\ heap = [a \in Addrs |-> "free"]
    /\ store = [a \in Addrs |-> NoStore]
    /\ registry = {}
    /\ mutex = [a \in Addrs |-> NoThread]
    /\ poisoned = [a \in Addrs |-> FALSE]
    /\ shardOf \in {f \in [Addrs -> Shards] : f[1] = 0}
    /\ pc = [t \in Threads |-> "idle"]
    /\ call = [t \in Threads |-> NoCall]
    /\ last = NoRet
    /\ now \in Clock
    /\ destroyed = {}
    /\ fault = "none"
    /\ calls = 0

Next ==
    \/ Tick
    \/ \E t \in Threads :
        \/ nativeInitialize(t)
        \/ nativeDestroy(t)
        \/ with_replica_lock(t)
        \/ DanglingBody(t)
        \/ PanicInBody(t)
        \/ nativeCreateTask(t, HostInputs)
        \/ nativeTaskSetDescription(t, HostInputs)
        \/ nativeTaskSetStatus(t, HostInputs)
        \/ nativeTaskSetValue(t, HostInputs)
        \/ nativeTaskAddTag(t, HostInputs)
        \/ nativeTaskRemoveTag(t, HostInputs)
        \/ nativeTaskAddAnnotation(t, HostInputs)
        \/ nativeTaskRemoveAnnotation(t, HostInputs)
        \/ nativeClearAllTasks(t, HostInputs)
        \/ nativeGetAllTaskUuids(t, HostInputs)
        \/ nativeGetTaskData(t, HostInputs)

Spec == Init /\ [][Next]_vars

\* A second specification, for the commands and queries of one replica: it
\* starts in the state a first nativeInitialize leaves (its box at address 1,
\* registered, the store empty); one host thread issues the calls, one after
\* the other, with well-formed and malformed arguments of every kind.
StoreThreads == {"t1"}
StoreInputs ==
    [handles |-> {1}, ids |-> UuidStrs \ {"u2"}, descriptions |-> {"X"},
     statuses |-> {"completed", "bogus"}, keys |-> {"modified", "project"},
     values |-> {None, Some("9")}, tags |-> {"work", "bad tag"}, texts |-> {"note"},
     entries |-> Clock \cup {MaxTimestamp + 1}, outcomes |-> StoreOutcomes]

InitStore ==
    /\ heap = [a \in Addrs |-> IF a = 1 THEN "live" ELSE "free"]
    /\ store = [a \in Addrs |-> IF a = 1 THEN EmptyStore ELSE NoStore]
    /\ registry = {1}
    /\ mutex = [a \in Addrs |-> NoThread]
    /\ poisoned = [a \in Addrs |-> FALSE]
    /\ shardOf \in {f \in [Addrs -> Shards] : f[1] = 0}
    /\ pc = [t \in Threads |-> "idle"]
    /\ call = [t \in Threads |-> NoCall]
    /\ last = NoRet
    /\ now \in Clock
    /\ destroyed = {}
    /\ fault = "none"
    /\ calls = 0

NextStore ==
    \/ Tick
    \/ \E t \in StoreThreads :
        \/ with_replica_lock(t)
        \/ nativeCreateTask(t, StoreInputs)
        \/ nativeTaskSetDescription(t, StoreInputs)
        \/ nativeTaskSetStatus(t, StoreInputs)
        \/ nativeTaskSetValue(t, StoreInputs)
        \/ nativeTaskAddTag(t, StoreInputs)
        \/ nativeTaskRemoveTag(t, StoreInputs)
        \/ nativeTaskAddAnnotation(t, StoreInputs)
        \/ nativeTaskRemoveAnnotation(t, StoreInputs)
        \/ nativeClearAllTasks(t, StoreInputs)
        \/ nativeGetAllTaskUuids(t, StoreInputs)
        \/ nativeGetTaskData(t, [StoreInputs EXCEPT !.handles = Handles, !.ids = UuidStrs])

SpecStore == InitStore /\ [][NextStore]_vars

\* A third specification, the scenario of test_concurrent_access: one replica,
\* the threads create tasks concurrently, each creation under an id no other
\* creation uses, the store accepts every commit, and once every creation has
\* returned the ids are listed.
CreatorIds == {"u1", "u2"}
CreatingUuids == {CallUuid(t) : t \in {w \in Threads : call[w].op = "createTask"}}
FreshIds == {s \in CreatorIds :
               /\ calls < Cardinality(CreatorIds)
               /\ ParseUuid(s)[1] \notin DOMAIN store[1].tasks \cup CreatingUuids}
AllCreated == calls >= Cardinality(CreatorIds) /\ CreatingUuids = {}

CreatorInputs ==
    [handles |-> {1}, ids |-> FreshIds, outcomes |-> {"ok"}]

InitCreators == InitStore

NextCreators ==
    \/ Tick
    \/ \E t \in Threads :
        \/ with_replica_lock(t)
        \/ nativeCreateTask(t, CreatorInputs)
        \/ AllCreated /\ nativeGetAllTaskUuids(t, CreatorInputs)

SpecCreators == InitCreators /\ [][NextCreators]_vars

\* A fourth specification, for the tags and annotations of one task: it
\* starts in the state nativeInitialize and then nativeCreateTask of "u1" at
\* clock reading 0 leave; one host thread adds and removes tags and
\* annotations and reads the task.
EntityInputs ==
    [handles |-> {1}, ids |-> {"u1"}, tags |-> {"work", "home"},
     texts |-> {"note"}, entries |-> Clock, outcomes |-> {"ok"}]

InitEntity ==
    /\ heap = [a \in Addrs |-> IF a = 1 THEN "live" ELSE "free"]
    /\ store = [a \in Addrs |->
                  IF a = 1 THEN Commit(EmptyStore, CreateTaskOps(1, ToStr(0))) ELSE NoStore]
    /\ registry = {1}
    /\ mutex = [a \in Addrs |-> NoThread]
    /\ poisoned = [a \in Addrs |-> FALSE]
    /\ shardOf \in {f \in [Addrs -> Shards] : f[1] = 0}
    /\ pc = [t \in Threads |-> "idle"]
    /\ call = [t \in Threads |-> NoCall]
    /\ last = NoRet
    /\ now \in Clock
    /\ destroyed = {}
    /\ fault = "none"
    /\ calls = 0

NextEntity ==
    \/ Tick
    \/ \E t \in StoreThreads :
        \/ with_replica_lock(t)
        \/ nativeTaskAddTag(t, EntityInputs)
        \/ nativeTaskRemoveTag(t, EntityInputs)
        \/ nativeTaskAddAnnotation(t, EntityInputs)
        \/ nativeTaskRemoveAnnotation(t, EntityInputs)
        \/ nativeGetTaskData(t, EntityInputs)

SpecEntity == InitEntity /\ [][NextEntity]_vars

\* Undo on one handle: the store holds nothing or one task when the undo point
\* of test_undo_operations is added, then commands and undos follow.
UndoInputs ==
    [handles |-> {1}, ids |-> {"u1", "u2"}, descriptions |-> {"X"}, messages |-> {"m"},
     outcomes |-> StoreOutcomes, reversals |-> UndoOutcomes]

BeforeUndoPoint == {EmptyStore, Commit(EmptyStore, CreateTaskOps(1, ToStr(0)))}

InitUndo ==
    /\ heap = [a \in Addrs |-> IF a = 1 THEN "live" ELSE "free"]
    /\ \E st \in BeforeUndoPoint :
         store = [a \in Addrs |-> IF a = 1 THEN Commit(st, <<OpUndoPoint>>) ELSE NoStore]
    /\ registry = {1}
    /\ mutex = [a \in Addrs |-> NoThread]
    /\ poisoned = [a \in Addrs |-> FALSE]
    /\ shardOf \in {f \in [Addrs -> Shards] : f[1] = 0}
    /\ pc = [t \in Threads |-> "idle"]
    /\ call = [t \in Threads |-> NoCall]
    /\ last = NoRet
    /\ now \in Clock
    /\ destroyed = {}
    /\ fault = "none"
    /\ calls = 0

NextUndo ==
    \/ Tick
    \/ \E t \in StoreThreads :
        \/ with_replica_lock(t)
        \/ nativeCreateTask(t, UndoInputs)
        \/ nativeTaskSetDescription(t, UndoInputs)
        \/ nativeAddUndoPoint(t, UndoInputs)
        \/ nativeUndo(t, UndoInputs)
        \/ nativeCommit(t, UndoInputs)

SpecUndo == InitUndo /\ [][NextUndo]_vars

\* Synchronization of one handle whose store holds a pending task that the
\* working set lists; a second handle value is not registered.
SyncInputs ==
    [handles |-> Handles, ids |-> {"u2"}, configs |-> ConfigTexts,
     servers |-> ServerOutcomes, outcomes |-> StoreOutcomes, statuses |-> {"completed"}]

InitSync ==
    /\ heap = [a \in Addrs |-> IF a = 1 THEN "live" ELSE "free"]
    /\ store = [a \in Addrs |->
                  IF a = 1
                  THEN Rebuild(Commit(Commit(EmptyStore, CreateTaskOps(1, ToStr(0))),
                                      SetStatusOps(1, "pending", ToStr(0))))
                  ELSE NoStore]
    /\ registry = {1}
    /\ mutex = [a \in Addrs |-> NoThread]
    /\ poisoned = [a \in Addrs |-> FALSE]
    /\ shardOf \in {f \in [Addrs -> Shards] : f[1] = 0}
    /\ pc = [t \in Threads |-> "idle"]
    /\ call = [t \in Threads |-> NoCall]
    /\ last = NoRet
    /\ now \in Clock
    /\ destroyed = {}
    /\ fault = "none"
    /\ calls = 0

NextSync ==
    \/ Tick
    \/ \E t \in StoreThreads :
        \/ with_replica_lock(t)
        \/ nativeSync(t, SyncInputs)
        \/ nativeCreateTask(t, SyncInputs)
        \/ nativeTaskSetStatus(t, [SyncInputs EXCEPT !.handles = {1}, !.ids = {"u1"}])
        \/ nativeGetTaskData(t, SyncInputs)
        \/ PanicInBody(t)

SpecSync == InitSync /\ [][NextSync]_vars

\* Positions of the working set of one handle.  nativeInitialize opens the
\* store of an existing directory (create_if_missing), so the working set is
\* whatever earlier sessions left: up to MaxPos entries, each empty, the nil
\* uuid or a task, no task twice.
MaxPos == 2
WorkingSets ==
    {w \in UNION {[1..n -> {None, Some(NilUuid), Some(1), Some(2)}] : n \in 0..MaxPos} :
        \A i, j \in DOMAIN w : (i # j /\ w[i] = w[j]) => w[i] \in {None, Some(NilUuid)}}

IndexInputs ==
    [handles |-> {1}, positions |-> (0 - 1)..(MaxPos + 1), outcomes |-> StoreOutcomes]

OnDisk(w) ==
    [Commit(Commit(Commit(EmptyStore, CreateTaskOps(1, ToStr(0))),
                   SetStatusOps(1, "pending", ToStr(0))),
            CreateTaskOps(2, ToStr(0)))
        EXCEPT !.ws = w]

InitIndex ==
    /\ heap = [a \in Addrs |-> IF a = 1 THEN "live" ELSE "free"]
    /\ \E w \in WorkingSets : store = [a \in Addrs |-> IF a = 1 THEN OnDisk(w) ELSE NoStore]
    /\ registry = {1}
    /\ mutex = [a \in Addrs |-> NoThread]
    /\ poisoned = [a \in Addrs |-> FALSE]
    /\ shardOf \in {f \in [Addrs -> Shards] : f[1] = 0}
    /\ pc = [t \in Threads |-> "idle"]
    /\ call = [t \in Threads |-> NoCall]
    /\ last = NoRet
    /\ now \in Clock
    /\ destroyed = {}
    /\ fault = "none"
    /\ calls = 0

NextIndex ==
    \E t \in StoreThreads :
        \/ with_replica_lock(t)
        \/ nativeGetUuidForIndex(t, IndexInputs)
        \/ nativeCommit(t, IndexInputs)
        \/ nativeClearAllTasks(t, IndexInputs)

SpecIndex == InitIndex /\ [][NextIndex]_vars

\* The export of one task (test_data_export): fields under any key, a tag and
\* annotations are set on it, then its document is read.
ExportInputs ==
    [handles |-> {1}, ids |-> {"u1", "U1"}, keys |-> {"project", "uuid"},
     values |-> {None, Some("X")}, tags |-> {"work"}, texts |-> {"note"},
     outcomes |-> {"ok"}]

NextExport ==
    \/ Tick
    \/ \E t \in StoreThreads :
        \/ with_replica_lock(t)
        \/ nativeTaskSetValue(t, ExportInputs)
        \/ nativeTaskAddTag(t, ExportInputs)
        \/ nativeTaskAddAnnotation(t, ExportInputs)
        \/ nativeGetTaskData(t, ExportInputs)

SpecExport == InitEntity /\ [][NextExport]_vars

\* --------------------------------------------------------------- properties

\* The whole boundary with one host thread: every handler that takes a handle,
\* called with the null handle, with the handles nativeInitialize returns and
\* with handle values that are not registered.
BoundaryInputs ==
    [handles |-> Handles, ids |-> {"u1", "not-a-uuid"}, descriptions |-> {"X"},
     statuses |-> {"completed"}, keys |-> {"project"}, values |-> {Some("X")},
     tags |-> {"work"}, texts |-> {"note"}, entries |-> {0}, messages |-> {"m"},
     positions |-> {1}, configs |-> {"{type:gcp,bucket:b,encryption_secret:s}", "not json"},
     servers |-> ServerOutcomes, reversals |-> {"ok"}, outcomes |-> StoreOutcomes]

NextBoundary ==
    \E t \in StoreThreads :
        \/ nativeInitialize(t)
        \/ nativeDestroy(t)
        \/ with_replica_lock(t)
        \/ nativeUndo(t, BoundaryInputs)
        \/ nativeAddUndoPoint(t, BoundaryInputs)
        \/ nativeCommit(t, BoundaryInputs)
        \/ nativeCreateTask(t, BoundaryInputs)
        \/ nativeTaskSetDescription(t, BoundaryInputs)
        \/ nativeTaskSetStatus(t, BoundaryInputs)
        \/ nativeTaskSetValue(t, BoundaryInputs)
        \/ nativeTaskAddTag(t, BoundaryInputs)
        \/ nativeTaskRemoveTag(t, BoundaryInputs)
        \/ nativeTaskAddAnnotation(t, BoundaryInputs)
        \/ nativeTaskRemoveAnnotation(t, BoundaryInputs)
        \/ nativeGetAllTaskUuids(t, BoundaryInputs)
        \/ nativeGetTaskData(t, BoundaryInputs)
        \/ nativeGetUuidForIndex(t, BoundaryInputs)
        \/ nativeClearAllTasks(t, BoundaryInputs)
        \/ nativeSync(t, BoundaryInputs)

SpecBoundary == Init /\ [][NextBoundary]_vars

\* The lifecycle and the lock under a fair scheduler: the calls of Spec that
\* contend (initialize, destroy, a command and a query), where a thread that
\* has started a call and can take its next step eventually takes it.  Store
\* operations terminate: a body, once entered, is one step.
FairInputs == [handles |-> Handles, ids |-> {"u1"}, outcomes |-> StoreOutcomes]

Proceed(t) ==
    \/ nativeInitialize(t)
    \/ nativeDestroy(t)
    \/ with_replica_lock(t)
    \/ DanglingBody(t)
    \/ PanicInBody(t)
    \/ nativeCreateTask(t, FairInputs)
    \/ nativeGetAllTaskUuids(t, FairInputs)

NextFair == \E t \in Threads : Proceed(t)

SpecFair ==
    /\ Init
    /\ [][NextFair]_vars
    /\ \A t \in Threads : WF_vars(pc[t] # "idle" /\ Proceed(t))

\* The scenario of test_timeout_handling with two host threads: one replica
\* is registered, a thread panics while it holds the guard, and the calls
\* that follow contend for the poisoned mutex.
PoisonInputs == [handles |-> {1}, ids |-> {"u1", "u2"}, outcomes |-> StoreOutcomes]

NextPoison ==
    \E t \in Threads :
        \/ with_replica_lock(t)
        \/ PanicInBody(t)
        \/ nativeCreateTask(t, PoisonInputs)
        \/ nativeGetAllTaskUuids(t, PoisonInputs)

SpecPoison == InitStore /\ [][NextPoison]_vars

\* The commands that change entities.
MutatingOps ==
    {"createTask", "setDescription", "setStatus", "setValue", "addTag", "removeTag",
     "addAnnotation", "removeAnnotation", "clearAll"}

\* The step in which the body of thread t's call runs on a live replica and
\* the call returns.
BodyReturns(t) == pc[t] = "body" /\ pc'[t] = "idle" /\ heap[call[t].h] = "live"

\* The step in which thread t's command op commits its batch.
Commits(t, op) ==
    /\ BodyReturns(t)
    /\ call[t].op = op
    /\ last'.thread = t
    /\ last'.log = "committed"

\* Entity u of the replica at h is created or changed by the step.
Changed(h, u) ==
    /\ u \in DOMAIN store'[h].tasks
    /\ u \in DOMAIN store[h].tasks => store'[h].tasks[u] # store[h].tasks[u]

\* C1: once nativeDestroy has removed a handle from the registry, that handle
\* value never resolves to a lock again, whatever nativeInitialize calls follow.
C1_RemovedHandleNeverResolves == \A h \in destroyed : h \notin registry

\* C2: nativeDestroy of a non-zero handle that is not registered has no effect:
\* the registry is unchanged and no box is touched or released, so that no box
\* is ever released twice.
C2_UnregisteredDestroyHasNoEffect ==
    [][\A t \in Threads :
         /\ (pc[t] = "remove" /\ pc'[t] = "drop" /\ call[t].h \notin registry)
              => registry' = registry
         /\ (pc[t] = "drop" /\ pc'[t] = "idle" /\ ~call[t].flag)
              => (heap' = heap /\ store' = store /\ fault' = fault)]_vars

\* C3: for every handle, at most one command or query body executes against
\* the handle's replica at any moment.
C3_OneBodyPerHandle ==
    \A h \in Addrs : Cardinality({t \in Threads : pc[t] = "body" /\ call[t].h = h}) <= 1

\* C3 happens: one thread runs a body while another waits for the same handle.
C3_Witness ==
    \E t, u \in Threads :
        /\ t # u
        /\ pc[t] = "body"
        /\ pc[u] = "lock"
        /\ call[t].h = call[u].h

\* C4: a call that concerns one handle (here: nativeDestroy at its registry
\* removal, nativeInitialize at its registry insertion) is never made to wait
\* by a command in progress on a different handle.
C4_OtherHandlesNeverWait ==
    \A t, u \in Threads :
        (/\ pc[t] \in {"insert", "remove"}
         /\ pc[u] = "body"
         /\ call[u].h # call[t].h)
            => u \notin Readers(shardOf[call[t].h])

\* C5: every command is all-or-nothing: when its body returns the store holds
\* the store before plus the whole batch, or exactly the store before; and
\* when building or committing the batch failed, exactly the store before.
C5_AllOrNothing ==
    [][\A t \in Threads :
         (BodyReturns(t) /\ call[t].op \in MutatingOps) =>
            LET h == call[t].h
            IN /\ store'[h] \in {store[h], Commit(store[h], BatchOf(t))}
               /\ last'.log \in {"build_failed", "commit_failed", "not_found"}
                    => store'[h] = store[h]]_vars

\* C5 happens: a command failed on a store that holds tasks.
C5_Witness ==
    /\ last.op \in MutatingOps
    /\ last.log \in {"build_failed", "commit_failed"}
    /\ \E h \in registry : DOMAIN store[h].tasks # {}

\* C6: after a thread panicked while holding a handle's mutex, every later
\* call on the handle still acquires the mutex as soon as it is free and
\* enters its body; the poisoned mutex never makes a call fail or block.
C6_PoisonedLockStillServes ==
    /\ [](\A t \in Threads :
            (/\ pc[t] = "lock"
             /\ fault # "abort"
             /\ poisoned[call[t].h]
             /\ mutex[call[t].h] = NoThread) => ENABLED with_replica_lock(t))
    /\ [][\A t \in Threads :
            (pc[t] = "lock" /\ poisoned[call[t].h] /\ pc'[t] # "lock")
               => (pc'[t] = "body" /\ mutex'[call[t].h] = t)]_vars

\* C6 happens: a command has committed through a recovered mutex.
C6_Witness ==
    /\ last.recovered
    /\ last.op \in MutatingOps
    /\ last.log = "committed"

\* C7: when the threads have created tasks concurrently under pairwise
\* distinct ids and every creation has returned, the store holds all of them
\* and nativeGetAllTaskUuids yields exactly those ids.
C7_ConcurrentCreatesAllListed ==
    /\ AllCreated => DOMAIN store[1].tasks = {ParseUuid(s)[1] : s \in CreatorIds}
    /\ (last.op = "getAllTaskUuids" /\ last.log = "found") => last.val = CreatorIds

\* C7 happens: the ids have been listed after the concurrent creations.
C7_Witness ==
    /\ last.op = "getAllTaskUuids"
    /\ last.log = "found"
    /\ Cardinality(last.val) = Cardinality(CreatorIds)

C9_CreateThenGet ==
    [][\A t \in Threads :
         (Commits(t, "createTask") /\ CallUuid(t) \notin DOMAIN Tasks(t)) =>
            LET doc == GetTaskData(store'[call[t].h], call[t].id)
            IN /\ {"uuid", "entry", "modified"} \subseteq DOMAIN doc
               /\ doc["uuid"] = call[t].id
               /\ doc["entry"] = doc["modified"]]_vars

\* C9 happens: a creation has committed and its task carries both stamps.
C9_Witness ==
    /\ last.op = "createTask"
    /\ last.log = "committed"
    /\ \E h \in registry : \E u \in DOMAIN store[h].tasks :
          /\ {"entry", "modified"} \subseteq DOMAIN store[h].tasks[u]
          /\ store[h].tasks[u]["entry"] = store[h].tasks[u]["modified"]

\* C10, as claimed: after nativeTaskSetDescription(h, id, X) on an existing
\* task, nativeGetTaskData reports description X and a "modified" not smaller
\* than the "modified" the task had before the call.
C10_ModifiedNeverDecreases ==
    [][\A t \in Threads :
         Commits(t, "setDescription") =>
            LET before == Tasks(t)[CallUuid(t)]
                doc == GetTaskData(store'[call[t].h], call[t].id)
            IN /\ doc["description"] = call[t].a1
               /\ "modified" \in DOMAIN before
                    => NumOf(doc["modified"]) >= NumOf(before["modified"])]_vars

\* C10, amended: after nativeTaskSetDescription(h, id, X) on an existing task,
\* nativeGetTaskData reports description X and a "modified" equal to the clock
\* reading of the call, which is not smaller than the earlier "modified"
\* whenever that one is not ahead of the clock.
C10_ModifiedIsClockReading ==
    [][\A t \in Threads :
         Commits(t, "setDescription") =>
            LET before == Tasks(t)[CallUuid(t)]
                doc == GetTaskData(store'[call[t].h], call[t].id)
            IN /\ doc["description"] = call[t].a1
               /\ doc["modified"] = ToStr(now)
               /\ ("modified" \in DOMAIN before /\ NumOf(before["modified"]) <= now)
                    => NumOf(doc["modified"]) >= NumOf(before["modified"])]_vars

\* C10 happens: a description has been set and the task carries the stamp.
C10_Witness ==
    /\ last.op = "setDescription"
    /\ last.log = "committed"
    /\ \E h \in registry : \E u \in DOMAIN store[h].tasks :
          /\ {"description", "modified"} \subseteq DOMAIN store[h].tasks[u]
          /\ store[h].tasks[u]["description"] = "X"
          /\ store[h].tasks[u]["modified"] = ToStr(now)

\* The valid tags of the model.
ValidTags == {g \in TagStrs : ParseTag(g) # None}

\* The store after nativeTaskAddTag(u, g) and then nativeTaskRemoveTag(u, g)
\* have both committed on store st, with the clock at ts.
AddThenRemoveTag(st, u, g, ts) ==
    Commit(Commit(st, AddTagOps(u, ParseTag(g)[1], ts)), RemoveTagOps(u, ParseTag(g)[1], ts))

\* C11, as claimed: for every existing task, every valid tag and every prior
\* tag set, nativeTaskAddTag followed by nativeTaskRemoveTag of the same tag
\* leaves the tag set of the task as it was before the nativeTaskAddTag.
C11_TagRoundTrip ==
    \A h \in registry : \A u \in DOMAIN store[h].tasks : \A g \in ValidTags :
        heap[h] = "live" =>
            TagsOf(AddThenRemoveTag(store[h], u, g, ToStr(now)).tasks[u])
                = TagsOf(store[h].tasks[u])

\* C11, amended: nativeTaskAddTag followed by nativeTaskRemoveTag of the same
\* tag leaves the prior tag set without that tag: it restores the prior tag
\* set exactly when the task did not carry the tag before.
C11_TagRoundTripRemoves ==
    \A h \in registry : \A u \in DOMAIN store[h].tasks : \A g \in ValidTags :
        heap[h] = "live" =>
            LET before == TagsOf(store[h].tasks[u])
                after == TagsOf(AddThenRemoveTag(store[h], u, g, ToStr(now)).tasks[u])
            IN /\ after = before \ {g}
               /\ g \notin before => after = before

\* C11 happens: a nativeTaskRemoveTag has committed on a task that still
\* carries another tag.
C11_Witness ==
    /\ last.op = "removeTag"
    /\ last.log = "committed"
    /\ \E h \in registry : \E u \in DOMAIN store[h].tasks : TagsOf(store[h].tasks[u]) # {}

\* C12: nativeTaskRemoveAnnotation with the timestamp of one annotation
\* removes that annotation and no other: every other annotation keeps its
\* timestamp and its text, and removing the only annotation leaves none.
C12_RemovesOnlyThatAnnotation ==
    [][\A t \in Threads :
         Commits(t, "removeAnnotation") =>
            LET u == CallUuid(t)
                e == call[t].a1
                before == Tasks(t)[u]
                after == store'[call[t].h].tasks[u]
            IN /\ AnnotationsOf(after) = AnnotationsOf(before) \ {e}
               /\ \A o \in AnnotationsOf(after) :
                     after[AnnotationKey(o)] = before[AnnotationKey(o)]]_vars

\* C12 happens: nativeTaskRemoveAnnotation runs, with the timestamp of one of
\* them, on a task that holds two annotations.
C12_Witness ==
    \E t \in Threads :
        /\ InBody(t, "removeAnnotation")
        /\ CallUuid(t) \in DOMAIN Tasks(t)
        /\ Cardinality(AnnotationsOf(Tasks(t)[CallUuid(t)])) = 2
        /\ call[t].a1 \in AnnotationsOf(Tasks(t)[CallUuid(t)])

\* The batches of one command a host can commit on the store st.
CommandBatches(st) ==
    {CreateTaskOps(u, ToStr(now)) : u \in Uuids \ DOMAIN st.tasks}
    \cup {SetDescriptionOps(u, "X", ToStr(now)) : u \in DOMAIN st.tasks}

\* addUndoPoint, the command of batch ops, then undo.
UndoneCommand(st, ops) == Undo(Commit(Commit(st, <<OpUndoPoint>>), ops), "ok")

\* C13 (as stated): after an undo point, one committed command and an undo,
\* the tasks are those of the undo point, and a second undo at once returns
\* nothing-to-undo and leaves the store unchanged, whatever operations
\* preceded the undo point.
C13_SecondUndoFindsNothing ==
    \A h \in registry : heap[h] = "live" =>
        \A ops \in CommandBatches(store[h]) :
            LET first == UndoneCommand(store[h], ops)
                second == Undo(first.st, "ok")
            IN /\ first.val = 1
               /\ first.st.tasks = store[h].tasks
               /\ second.log = "nothing_to_undo"
               /\ second.st = first.st

\* C13 (amended): the undo reverses exactly the command; a second undo at once
\* returns nothing-to-undo, and leaves the store unchanged, exactly when the
\* log held no operation before the undo point; otherwise it goes on to
\* reverse the operations before the undo point.
C13_UndoReversesCommand ==
    \A h \in registry : heap[h] = "live" =>
        \A ops \in CommandBatches(store[h]) :
            LET first == UndoneCommand(store[h], ops)
                second == Undo(first.st, "ok")
            IN /\ first.val = 1
               /\ first.st = store[h]
               /\ (second.log = "nothing_to_undo") = UndoOpsEmpty(store[h])
               /\ UndoOpsEmpty(store[h]) => second.st = first.st
               /\ ~UndoOpsEmpty(store[h]) =>
                      second.st.tasks = store[h].log[Len(store[h].log)].before

\* An undo has just reversed a command and the log still holds operations.
C13_Witness ==
    /\ last.op = "undo"
    /\ last.log = "undone"
    /\ \E h \in registry : heap[h] = "live" /\ ~UndoOpsEmpty(store[h])

\* The return of an undo that found nothing to undo.
NothingToUndo == Undo(EmptyStore, "ok")

\* C14: the result of undo tells nothing-to-undo apart from a conflict and from
\* an error: neither of these returns the value of nothing-to-undo.
C14_NothingToUndoIsDistinct ==
    (last.op = "undo" /\ last.log \in {"undo_conflict", "store_error"})
        => last.val # NothingToUndo.val
\* A boundary result of sync that reports an error.
IsError(v) == Len(v) >= 6 /\ SubSeq(v, 1, 6) = "ERROR:"

\* The configuration texts that meet the schema of the configuration document:
\* a backend type, a bucket, a non-empty encryption secret and the fields of
\* the backend.
MeetsSchema(s) ==
    /\ FromStr(s) # None
    /\ LET d == FromStr(s)[1]
       IN /\ {"type", "bucket", "encryption_secret"} \subseteq DOMAIN d
          /\ d["encryption_secret"] # ""
          /\ \/ d["type"] = "gcp"
             \/ /\ d["type"] = "aws"
                /\ {"region", "credentials"} \subseteq DOMAIN d
                /\ "type" \in DOMAIN d["credentials"]
                /\ LET c == d["credentials"]
                   IN \/ c["type"] = "default"
                      \/ /\ c["type"] = "access_key"
                         /\ {"access_key_id", "secret_access_key"} \subseteq DOMAIN c
                      \/ c["type"] = "profile" /\ "profile_name" \in DOMAIN c

\* C15: a sync whose configuration is invalid returns an "ERROR:" result from
\* where it was called: it never waits for or holds the handle's lock, and the
\* store (tasks and working set) is left as it was.
C15_InvalidConfigNeverLocks ==
    /\ [](\A t \in Threads :
            (pc[t] \in {"lock", "body"} /\ call[t].op = "sync") => MeetsSchema(call[t].a1))
    /\ [][\A t \in Threads :
            (pc[t] = "idle" /\ last'.thread = t /\ last'.op = "sync")
               => (/\ IsError(last'.val)
                   /\ store' = store
                   /\ mutex' = mutex
                   /\ pc'[t] = "idle")]_vars

\* C15 happens: a sync was refused for its configuration on a handle whose
\* store holds a task and a working set entry.
C15_Witness ==
    /\ last.op = "sync"
    /\ last.log = "invalid_input"
    /\ \E h \in registry : DOMAIN store[h].tasks # {} /\ store[h].ws # <<>>

\* C16: when the remote call of a sync terminates abnormally, the sync returns
\* an "ERROR:" result, the process goes on, the handle's lock is released and
\* not poisoned, and the handle and its store are as before, so that the next
\* call on the handle proceeds.
C16_SyncPanicIsContained ==
    [][\A t \in Threads :
        (InBody(t, "sync") /\ last'.thread = t /\ last'.log = "sync_panicked")
           => (/\ IsError(last'.val)
               /\ fault' = fault
               /\ pc'[t] = "idle"
               /\ mutex'[call[t].h] = NoThread
               /\ poisoned' = poisoned
               /\ call[t].h \in registry'
               /\ heap' = heap
               /\ store' = store)]_vars

\* C16 happens: a sync has returned after its remote call panicked.
C16_Witness ==
    /\ last.op = "sync"
    /\ last.log = "sync_panicked"
    /\ fault = "none"
    /\ mutex[1] = NoThread

\* C17: every abnormal termination under the handle's lock, in a command, in a
\* query or in a sync, becomes the sentinel result of the call: the call
\* returns a value and the process goes on.
C17_PanicsBecomeSentinels ==
    [][\A t \in Threads :
        (pc[t] = "body" /\ last'.thread = t /\ last'.log \in {"panicked", "sync_panicked"})
           => (fault' = fault /\ last'.val # "unwind")]_vars
\* C18: an initialize that fails returns 0 and leaves the registry and the heap
\* as they were; one that succeeds returns a non-zero handle that is in the
\* registry in the state in which it returns, where a call on the handle
\* finds it.
C18_InitializeRegistersBeforeReturn ==
    /\ [](last.op = "initialize" =>
             IF last.log = "initialized"
             THEN last.val # 0 /\ last.val \in registry
             ELSE last.val = 0)
    /\ [][\A t \in Threads :
            (pc[t] = "idle" /\ last'.thread = t /\ last'.op = "initialize")
               => (/\ last'.val = 0
                   /\ registry' = registry
                   /\ heap' = heap
                   /\ store' = store
                   /\ mutex' = mutex)]_vars

\* C18 happens: an initialize has just returned a handle.
C18_Witness ==
    /\ last.op = "initialize"
    /\ last.log = "initialized"
    /\ last.val \in Addrs
\* C19: clearAll returns true only when its batch was committed, and whenever
\* it returns false no entity's status has changed.
C19_FalseMeansNothingCleared ==
    [][\A t \in Threads :
        (BodyReturns(t) /\ call[t].op = "clearAll" /\ last'.thread = t) =>
            /\ last'.val = 1 => store'[call[t].h].tasks
                                   = Commit(store[call[t].h], BatchOf(t)).tasks
            /\ last'.val = 0 => store'[call[t].h].tasks = store[call[t].h].tasks]_vars
C21_DocumentHoldsEveryField ==
    [][\A t \in Threads :
        (/\ BodyReturns(t)
         /\ call[t].op = "getTaskData"
         /\ last'.thread = t
         /\ last'.log = "found") =>
            LET task == Tasks(t)[CallUuid(t)]
                doc == last'.val.doc
            IN /\ store' = store
               /\ \A k \in DOMAIN task : k \in DOMAIN doc /\ doc[k] = task[k]
               /\ doc["uuid"] = call[t].id
               /\ \A g \in TagsOf(task) : \E k \in DOMAIN doc : doc[k] = g
               /\ \A e \in AnnotationsOf(task) :
                     \E k \in DOMAIN doc : doc[k] = task[AnnotationKey(e)]]_vars
\* The defect a message of the configuration parser names.
DefectNamed(msg) ==
    CASE msg = "ERROR: Invalid JSON - expected value" -> "json"
      [] msg = "ERROR: Missing 'type' field" -> "type"
      [] msg = "ERROR: Unknown server type: local" -> "type"
      [] msg = "ERROR: Missing 'bucket' field" -> "bucket"
      [] msg \in {"ERROR: Missing 'encryption_secret' field",
                  "ERROR: Empty encryption secret"} -> "secret"
      [] IsError(msg) -> "backend"
      [] OTHER -> "none"

BadSecret(d) == ~Has(d, "encryption_secret") \/ d["encryption_secret"] = ""

\* The first defect of a text that does not meet the schema, in the stated
\* order: type missing or unrecognized, bucket, secret, backend fields.
FirstDefectStated(s) ==
    IF FromStr(s) = None THEN "json"
    ELSE LET d == FromStr(s)[1]
         IN IF ~Has(d, "type") \/ d["type"] \notin {"gcp", "aws"} THEN "type"
            ELSE IF ~Has(d, "bucket") THEN "bucket"
            ELSE IF BadSecret(d) THEN "secret"
            ELSE "backend"

\* The same with the type recognized only after bucket and secret.
FirstDefectChecked(s) ==
    IF FromStr(s) = None THEN "json"
    ELSE LET d == FromStr(s)[1]
         IN IF ~Has(d, "type") THEN "type"
            ELSE IF ~Has(d, "bucket") THEN "bucket"
            ELSE IF BadSecret(d) THEN "secret"
            ELSE IF d["type"] \notin {"gcp", "aws"} THEN "type"
            ELSE "backend"

\* C22 (as stated): the error of a sync on a document with several defects
\* names the first of them in the order type missing or unrecognized, bucket
\* missing, secret missing or empty, backend fields.
MisreportedStated ==
    {ConfigError(s) : s \in {x \in ConfigTexts :
        /\ ~MeetsSchema(x)
        /\ ConfigError(x) # None
        /\ DefectNamed(ConfigError(x)[1]) # FirstDefectStated(x)}}
C22_ErrorNamesFirstDefectStated ==
    [][(last'.op = "sync" /\ last'.log = "invalid_input") =>
          Some(last'.val) \notin MisreportedStated]_vars

\* C22 (amended): the order is type missing, bucket missing, secret missing or
\* empty, and only then type unrecognized and the backend fields.
MisreportedChecked ==
    {ConfigError(s) : s \in {x \in ConfigTexts :
        /\ ~MeetsSchema(x)
        /\ ConfigError(x) # None
        /\ DefectNamed(ConfigError(x)[1]) # FirstDefectChecked(x)}}
C22_ErrorNamesFirstDefectChecked ==
    [][(last'.op = "sync" /\ last'.log = "invalid_input") =>
          Some(last'.val) \notin MisreportedChecked]_vars

\* C22 happens: a sync has reported a missing bucket, which only documents
\* with a type do.
C22_Witness ==
    /\ last.op = "sync"
    /\ last.log = "invalid_input"
    /\ last.val = "ERROR: Missing 'bucket' field"
\* The commands that address one existing task.
TaskOps ==
    {"setDescription", "setStatus", "setValue", "addTag", "removeTag",
     "addAnnotation", "removeAnnotation"}

\* C23: a command on a task, addressed to an id the store does not hold,
\* commits nothing: the store (tasks, log, working set) is as before, no task
\* is created, and the handler only reports that the task was not found.
C23_AbsentIdCommitsNothing ==
    [][\A t \in Threads :
        (/\ BodyReturns(t)
         /\ call[t].op \in TaskOps
         /\ CallUuid(t) \notin DOMAIN Tasks(t)) =>
            /\ store' = store
            /\ last'.log = "not_found"]_vars

\* C23 happens: a command on a task has returned without finding its task.
C23_Witness ==
    /\ last.op \in TaskOps
    /\ last.log = "not_found"
    /\ \E h \in registry : heap[h] = "live" /\ ParseUuid("u1")[1] \notin DOMAIN store[h].tasks
\* C24: when nativeTaskSetValue with the key "modified" and the value v commits
\* on an existing task, the task's "modified" is exactly v, and absent when v
\* is null: the clock reading is not written over it.
C24_ExplicitModifiedIsKept ==
    [][\A t \in Threads :
        (Commits(t, "setValue") /\ call[t].a1 = "modified") =>
            LET after == store'[call[t].h].tasks[CallUuid(t)]
            IN IF call[t].a2 = None
               THEN "modified" \notin DOMAIN after
               ELSE "modified" \in DOMAIN after /\ after["modified"] = call[t].a2[1]]_vars

\* C24 happens: a task carries a "modified" that no clock reading of the model
\* produces, just after nativeTaskSetValue committed.
C24_Witness ==
    /\ last.op = "setValue"
    /\ last.log = "committed"
    /\ \E h \in registry : \E u \in DOMAIN store[h].tasks :
          /\ "modified" \in DOMAIN store[h].tasks[u]
          /\ store[h].tasks[u]["modified"] = "9"
\* C25: a nativeClearAllTasks that returns 1 has committed one batch, an undo
\* point and then status deleted for every task the store held, and has
\* rebuilt the working set: the same tasks exist, each with status deleted,
\* the log has one more undo point, taken at the store before, the working
\* set lists no task that is not pending, and a single undo gives every task
\* the properties it had.
C25_ClearAllIsOneUndoableBatch ==
    [][\A t \in Threads :
        (BodyReturns(t) /\ call[t].op = "clearAll" /\ last'.thread = t /\ last'.val = 1) =>
            LET before == store[call[t].h]
                after == store'[call[t].h]
            IN /\ DOMAIN after.tasks = DOMAIN before.tasks
               /\ \A u \in DOMAIN after.tasks :
                     /\ "status" \in DOMAIN after.tasks[u]
                     /\ after.tasks[u]["status"] = "deleted"
                     /\ \A k \in DOMAIN before.tasks[u] \ {"status"} :
                           k \in DOMAIN after.tasks[u]
                           /\ after.tasks[u][k] = before.tasks[u][k]
               /\ Len(after.log) = Len(before.log) + 1
               /\ SubSeq(after.log, 1, Len(before.log)) = before.log
               /\ after.log[Len(after.log)].marked
               /\ after.log[Len(after.log)].before = before.tasks
               /\ \A i \in 1..Len(after.ws) : after.ws[i] = None
               /\ Undo(after, "ok").st.tasks = before.tasks
               /\ Undo(after, "ok").st.log = before.log
               /\ before.tasks # NoTasks => Undo(after, "ok").val = 1]_vars

\* C25 happens: a nativeClearAllTasks has returned 1 on a store that holds a
\* task, now deleted.
C25_Witness ==
    /\ last.op = "clearAll"
    /\ last.val = 1
    /\ \E h \in registry : \E u \in DOMAIN store[h].tasks :
          /\ "status" \in DOMAIN store[h].tasks[u]
          /\ store[h].tasks[u]["status"] = "deleted"
\* C26: nativeCommit leaves the tasks and the undo log as they were and
\* changes the working set only; nativeAddUndoPoint leaves the tasks and the
\* working set as they were and adds at most one undo point to the log; after
\* either, nativeGetAllTaskUuids and nativeGetTaskData of every id answer what
\* they answered before.
C26_CheckpointsKeepTaskData ==
    [][\A t \in Threads :
        (BodyReturns(t) /\ call[t].op \in {"commit", "addUndoPoint"}) =>
            LET before == store[call[t].h]
                after == store'[call[t].h]
            IN /\ after.tasks = before.tasks
               /\ \A a \in Addrs \ {call[t].h} : store'[a] = store[a]
               /\ call[t].op = "commit" => after.log = before.log
               /\ call[t].op = "addUndoPoint" =>
                     /\ after.ws = before.ws
                     /\ \/ after.log = before.log
                        \/ after.log = Append(before.log, Segment(TRUE, before.tasks))
                     /\ last'.log = "committed" => after.log # before.log
               /\ AllTaskUuids(after) = AllTaskUuids(before)
               /\ \A s \in UuidStrs :
                     ParseUuid(s) # None => GetTaskData(after, s) = GetTaskData(before, s)]_vars

\* C26 happens: a nativeCommit has rebuilt the working set of a store that
\* holds a task, after an undo point was added.
C26_Witness ==
    /\ last.op = "commit"
    /\ last.log = "rebuilt"
    /\ \E h \in registry :
          /\ store[h].tasks # NoTasks
          /\ Len(store[h].log) > 2
\* The working set of st lists exactly what a rebuild of it would list.
IndexRebuilt(st) == st.ws = Rebuild(st).ws

\* C27: a nativeSync that returns "SUCCESS" has synchronized and has then
\* rebuilt the working set; one whose synchronization failed with an error
\* returns an "ERROR:" text and leaves the store, working set included, as it
\* was.
C27_SuccessMeansIndexRebuilt ==
    [][\A t \in Threads :
        (BodyReturns(t) /\ call[t].op = "sync" /\ last'.thread = t) =>
            LET before == store[call[t].h]
                after == store'[call[t].h]
            IN /\ last'.val = "SUCCESS" =>
                     /\ last'.log = "synced"
                     /\ after.tasks = Synced(before).tasks
                     /\ IndexRebuilt(after)
               /\ last'.log \in {"no_server", "sync_failed"} =>
                     IsError(last'.val) /\ store' = store]_vars

\* C27, as the code has it: a nativeSync returns "SUCCESS" exactly when the
\* synchronization succeeded; the working set is then either rebuilt or, when
\* the rebuild failed, left as it was; one whose synchronization failed with an
\* error returns an "ERROR:" text and leaves the store, working set included,
\* as it was.
C27_SuccessMeansSynced ==
    [][\A t \in Threads :
        (BodyReturns(t) /\ call[t].op = "sync" /\ last'.thread = t) =>
            LET before == store[call[t].h]
                after == store'[call[t].h]
            IN /\ last'.val = "SUCCESS" <=> last'.log = "synced"
               /\ last'.log = "synced" =>
                     /\ after.tasks = Synced(before).tasks
                     /\ after.log = Synced(before).log
                     /\ after.ws \in {before.ws, Rebuild(Synced(before)).ws}
               /\ last'.log \in {"no_server", "sync_failed"} =>
                     IsError(last'.val) /\ store' = store]_vars

\* C27 happens: a nativeSync has returned "SUCCESS" and the working set still
\* lists a task that is no longer pending.
C27_Witness ==
    /\ last.op = "sync"
    /\ last.val = "SUCCESS"
    /\ \E h \in registry : heap[h] = "live" /\ ~IndexRebuilt(store[h])
\* The array lists exactly the tasks of st, each once.
ListsExactly(val, st) ==
    /\ \A v \in val : ParseUuid(v) # None /\ ParseUuid(v)[1] \in DOMAIN st.tasks
    /\ \A u \in DOMAIN st.tasks : UuidToString(u) \in val
    /\ Cardinality(val) = Cardinality(DOMAIN st.tasks)

\* C28 (as stated): every nativeGetAllTaskUuids that runs its body on a
\* registered handle, and is not cut short by a panic, returns exactly the
\* ids of the tasks the store holds at that step, each once.
C28_ListIsAlwaysTheStore ==
    [][\A t \in Threads :
        (/\ BodyReturns(t)
         /\ call[t].op = "getAllTaskUuids"
         /\ last'.thread = t
         /\ last'.log # "panicked") =>
            ListsExactly(last'.val, store[call[t].h])]_vars

\* C28 (amended): a nativeGetAllTaskUuids whose all_tasks succeeds returns
\* exactly the ids of the tasks the store holds at the step in which it holds
\* the lock, each once, deleted tasks included, and leaves the store as it
\* is; one whose all_tasks fails returns the empty array.
C28_ListIsTheStoreWhenRead ==
    [][\A t \in Threads :
        (/\ BodyReturns(t)
         /\ call[t].op = "getAllTaskUuids"
         /\ last'.thread = t
         /\ last'.log # "panicked") =>
            /\ store' = store
            /\ mutex[call[t].h] = t
            /\ last'.log \in {"found", "store_error"}
            /\ last'.log = "found" => ListsExactly(last'.val, store[call[t].h])
            /\ last'.log = "store_error" => last'.val = {}]_vars

\* C28 happens: a nativeGetAllTaskUuids has listed the task of a store that
\* holds one.
C28_Witness ==
    /\ last.op = "getAllTaskUuids"
    /\ last.log = "found"
    /\ last.val # {}
    /\ \E h \in registry : ListsExactly(last.val, store[h])
\* What nativeGetTaskData hands to the host: the null reference, or "{}".
NullString == [null |-> TRUE]
EmptyJson == [null |-> FALSE, doc |-> EmptyDoc]

\* C29: a nativeGetTaskData on a registered handle, for an id the store does
\* not hold, returns "{}" and changes nothing; on the null handle, an
\* unregistered handle, a malformed id or a store error it returns the null
\* reference; for a task the store holds it returns a document that is neither.
C29_AbsentIsEmptyNotNull ==
    [][\A t \in Threads :
        (last'.thread = t /\ last'.op = "getTaskData" /\ pc[t] \in {"idle", "body"}) =>
            /\ last'.log \in {"null_pointer", "invalid_input", "invalid_pointer",
                              "store_error", "not_found", "found"}
            /\ last'.log \in {"null_pointer", "invalid_input", "invalid_pointer",
                              "store_error"} => last'.val = NullString
            /\ last'.log = "not_found" => last'.val = EmptyJson
            /\ last'.log = "found" => last'.val \notin {NullString, EmptyJson}
            /\ pc[t] = "idle" => last'.log \in {"null_pointer", "invalid_input", "invalid_pointer"}
            /\ pc[t] = "body" =>
                  /\ call[t].h \in registry
                  /\ ParseUuid(call[t].id) # None
                  /\ store' = store
                  /\ (last'.log # "store_error" /\ CallUuid(t) \notin DOMAIN Tasks(t))
                        => last'.log = "not_found"
                  /\ (last'.log # "store_error" /\ CallUuid(t) \in DOMAIN Tasks(t))
                        => last'.log = "found"]_vars

\* C29 happens: a nativeGetTaskData has returned "{}" for an id that a store
\* holding another task does not hold.
C29_Witness ==
    /\ last.op = "getTaskData"
    /\ last.log = "not_found"
    /\ last.val = EmptyJson
    /\ \E h \in registry : store[h].tasks # NoTasks
\* The step of thread t is the call of some handler with the null handle: the
\* handler is the one the step names, in its return or in the call it starts.
NullInputs == [BoundaryInputs EXCEPT !.handles = {0}]
CallOnNull(t) ==
    /\ pc[t] = "idle"
    /\ calls' = calls + 1
    /\ pc'[t] # "idle" \/ last'.thread = t
    /\ LET op == IF pc'[t] = "idle" THEN last'.op ELSE call'[t].op
       IN CASE op = "destroy" -> DestroyCall(t, 0)
            [] op = "undo" -> nativeUndo(t, NullInputs)
            [] op = "addUndoPoint" -> nativeAddUndoPoint(t, NullInputs)
            [] op = "commit" -> nativeCommit(t, NullInputs)
            [] op = "createTask" -> nativeCreateTask(t, NullInputs)
            [] op = "setDescription" -> nativeTaskSetDescription(t, NullInputs)
            [] op = "setStatus" -> nativeTaskSetStatus(t, NullInputs)
            [] op = "setValue" -> nativeTaskSetValue(t, NullInputs)
            [] op = "addTag" -> nativeTaskAddTag(t, NullInputs)
            [] op = "removeTag" -> nativeTaskRemoveTag(t, NullInputs)
            [] op = "addAnnotation" -> nativeTaskAddAnnotation(t, NullInputs)
            [] op = "removeAnnotation" -> nativeTaskRemoveAnnotation(t, NullInputs)
            [] op = "getAllTaskUuids" -> nativeGetAllTaskUuids(t, NullInputs)
            [] op = "getTaskData" -> nativeGetTaskData(t, NullInputs)
            [] op = "getUuidForIndex" -> nativeGetUuidForIndex(t, NullInputs)
            [] op = "clearAll" -> nativeClearAllTasks(t, NullInputs)
            [] op = "sync" -> nativeSync(t, NullInputs)
            [] OTHER -> FALSE

\* The value each handler returns for the null handle.
NullSentinel(op) ==
    CASE op \in {"undo", "clearAll"} -> 0
      [] op = "getAllTaskUuids" -> {}
      [] op = "getTaskData" -> [null |-> TRUE]
      [] op = "getUuidForIndex" -> None
      [] op = "sync" -> "ERROR: Null replica pointer"
      [] OTHER -> "void"

\* C30: handle 0 is never in the registry and no call in progress is on handle
\* 0; every call with handle 0 returns in its first step, with the sentinel of
\* its handler, having only logged the null pointer: the registry is not
\* looked up, no mutex is taken, and heap, stores and registry are as before.
C30_NullHandleIsNeverLive ==
    /\ [](0 \notin registry /\ \A t \in Threads : pc[t] # "idle" => call[t].h # 0)
    /\ [][\A t \in Threads :
            CallOnNull(t) =>
                /\ last'.thread = t
                /\ last'.log = "null_pointer"
                /\ last'.val = NullSentinel(last'.op)
                /\ last'.op = "sync" => IsError(last'.val)
                /\ pc'[t] = "idle"
                /\ UNCHANGED <<heap, store, registry, mutex, poisoned, shardOf, destroyed>>]_vars

\* C30 happens: a sync on handle 0 has returned its error while a handle is
\* registered.
C30_Witness ==
    /\ last.op = "sync"
    /\ last.log = "null_pointer"
    /\ registry # {}
\* The inputs of a command that are invalid in one way each: a malformed id;
\* with a well-formed id, a status that is none of the three, a malformed
\* tag, a timestamp from_timestamp cannot represent.
BadIdInputs == [StoreInputs EXCEPT !.handles = Addrs, !.ids = {"not-a-uuid"}]
BadStatusInputs == [StoreInputs EXCEPT !.handles = Addrs, !.ids = {"u1"}, !.statuses = {"bogus"}]
BadTagInputs == [StoreInputs EXCEPT !.handles = Addrs, !.ids = {"u1"}, !.tags = {"bad tag"}]
BadEntryInputs ==
    [StoreInputs EXCEPT !.handles = Addrs, !.ids = {"u1"}, !.entries = {MaxTimestamp + 1}]

\* The step of thread t is the call of a command with an invalid input on a
\* handle that is not null.
CallWithInvalidInput(t) ==
    /\ pc[t] = "idle"
    /\ calls' = calls + 1
    /\ pc'[t] # "idle" \/ last'.thread = t
    /\ LET op == IF pc'[t] = "idle" THEN last'.op ELSE call'[t].op
       IN CASE op = "createTask" -> nativeCreateTask(t, BadIdInputs)
            [] op = "setDescription" -> nativeTaskSetDescription(t, BadIdInputs)
            [] op = "setStatus" -> \/ nativeTaskSetStatus(t, BadIdInputs)
                                   \/ nativeTaskSetStatus(t, BadStatusInputs)
            [] op = "setValue" -> nativeTaskSetValue(t, BadIdInputs)
            [] op = "addTag" -> \/ nativeTaskAddTag(t, BadIdInputs)
                                \/ nativeTaskAddTag(t, BadTagInputs)
            [] op = "removeTag" -> \/ nativeTaskRemoveTag(t, BadIdInputs)
                                   \/ nativeTaskRemoveTag(t, BadTagInputs)
            [] op = "addAnnotation" -> nativeTaskAddAnnotation(t, BadIdInputs)
            [] op = "removeAnnotation" -> \/ nativeTaskRemoveAnnotation(t, BadIdInputs)
                                          \/ nativeTaskRemoveAnnotation(t, BadEntryInputs)
            [] OTHER -> FALSE

\* C31: a command called with a malformed id, an unknown status, a malformed
\* tag or an unrepresentable timestamp returns in its first step, having
\* logged the invalid input: the registry is not looked up, no mutex is taken,
\* and the stores, the heap and the registry are as before.
C31_InvalidInputReturnsBeforeLock ==
    [][\A t \in Threads :
        CallWithInvalidInput(t) =>
            /\ last'.thread = t
            /\ last'.log = "invalid_input"
            /\ last'.val = "void"
            /\ pc'[t] = "idle"
            /\ UNCHANGED <<heap, store, registry, mutex, poisoned, shardOf, destroyed>>]_vars

\* C31 happens: a nativeTaskSetStatus with a status that is none of the three
\* has returned on a store that holds the task.
C31_Witness ==
    /\ last.op = "setStatus"
    /\ last.log = "invalid_input"
    /\ \E h \in registry : heap[h] = "live" /\ 1 \in DOMAIN store[h].tasks
\* C32: the handle a nativeInitialize inserts into the registry is not in the
\* registry in the state in which it is inserted, so the insert replaces no
\* lock.
C32_InsertReplacesNoLock ==
    [][\A t \in Threads :
        (pc[t] = "insert" /\ pc'[t] = "idle") => call[t].h \notin registry]_vars
\* C33: in every reachable state every handle in the registry is the address
\* of a replica that has been boxed and not yet freed.
C33_RegisteredHandlesAreLive == \A h \in registry : heap[h] = "live"

\* C34: in every reachable state a call that has resolved its handle, and
\* waits for the handle's mutex or runs its body, is on a replica that has not
\* been freed.
C34_NoCallOnReleasedStore ==
    \A t \in Threads : pc[t] \in {"lock", "body"} => heap[call[t].h] = "live"
\* C35: in every reachable state the mutex of a handle is held only by a
\* thread that is in the body of a call on that handle; so once a call has
\* left, by whatever path, and no call on the handle is in progress, the
\* mutex is free.
C35_LockHeldOnlyInBody ==
    \A h \in Addrs :
        mutex[h] # NoThread =>
            /\ mutex[h] \in Threads
            /\ pc[mutex[h]] = "body"
            /\ call[mutex[h]].h = h

\* C35 happens: a call has left its body early, on a store error, an absent
\* task or a caught sync fault, and the mutex of its handle is free.
C35_Witness ==
    /\ last.log \in {"commit_failed", "store_error", "not_found", "sync_panicked"}
    /\ \E h \in registry : heap[h] = "live" /\ mutex[h] = NoThread
    /\ \A t \in Threads : pc[t] = "idle"
\* C36: under a fair scheduler every call that has started returns, unless
\* the process has aborted: no thread waits for ever for a shard of the
\* registry or for the mutex of a handle.
C36_EveryCallReturns ==
    \A t \in Threads : (pc[t] # "idle") ~> (pc[t] = "idle" \/ fault = "abort")

\* C36 happens: a nativeDestroy waits for the shard of its handle while a
\* call on that shard holds its reference, and the other thread is in its body.
C36_Witness ==
    \E t \in Threads :
        /\ pc[t] = "remove"
        /\ ~ShardWritable(call[t].h)
        /\ \E w \in Threads \ {t} : pc[w] = "body"
\* C37: in every reachable state in which the mutex of a handle is poisoned,
\* at most one thread is in a body on that handle, and it is the thread that
\* holds the mutex; a thread that took the mutex by recovering it from the
\* poison excludes the others like any other.
C37_PoisonedLockStillExcludes ==
    \A h \in Addrs :
        poisoned[h] =>
            \A t \in Threads :
                (pc[t] = "body" /\ call[t].h = h) =>
                    /\ mutex[h] = t
                    /\ \A w \in Threads \ {t} : ~(pc[w] = "body" /\ call[w].h = h)

\* C37 happens: after the poisoning two calls are on the handle; one has
\* recovered the mutex and is in its body, the other waits.
C37_Witness ==
    \E t, w \in Threads :
        /\ t # w
        /\ pc[t] = "body"
        /\ poisoned[call[t].h]
        /\ call[t].flag
        /\ pc[w] = "lock"
        /\ call[w].h = call[t].h
\* C38: a nativeTaskAddAnnotation that commits gives the task exactly one
\* annotation more than it had, at whatever clock reading it is made, and
\* leaves the annotations it had as they were.
C38_AddAnnotationAddsOne ==
    [][\A t \in Threads :
        Commits(t, "addAnnotation") =>
            LET before == store[call[t].h].tasks[CallUuid(t)]
                after == store'[call[t].h].tasks[CallUuid(t)]
            IN /\ Cardinality(AnnotationsOf(after)) = Cardinality(AnnotationsOf(before)) + 1
               /\ \A e \in AnnotationsOf(before) :
                     /\ e \in AnnotationsOf(after)
                     /\ after[AnnotationKey(e)] = before[AnnotationKey(e)]]_vars
\* C39: a nativeClearAllTasks that returns 1 removes no task: the ids
\* nativeGetAllTaskUuids lists are those it listed before, no other store is
\* touched, and nativeGetUuidForIndex answers null at every position, the
\* positions the working set listed before included.
C39_ClearAllKeepsIdsEmptiesIndex ==
    [][\A t \in Threads :
        (BodyReturns(t) /\ call[t].op = "clearAll" /\ last'.thread = t /\ last'.val = 1) =>
            LET before == store[call[t].h]
                after == store'[call[t].h]
            IN /\ AllTaskUuids(after) = AllTaskUuids(before)
               /\ \A a \in Addrs \ {call[t].h} : store'[a] = store[a]
               /\ \A p \in (0 - 1)..(Len(before.ws) + Len(after.ws) + 1) :
                     GetUuidForIndex(after, p) = None
               /\ IndexRebuilt(after)]_vars

\* C39 happens: after a nativeClearAllTasks that returned 1, a
\* nativeGetUuidForIndex has answered null on a store that still holds the
\* tasks, all deleted.
C39_Witness ==
    /\ last.op = "getUuidForIndex"
    /\ last.log = "no_task"
    /\ \E h \in registry :
          /\ AllTaskUuids(store[h]) = {UuidToString(1), UuidToString(2)}
          /\ \A u \in DOMAIN store[h].tasks :
                "status" \in DOMAIN store[h].tasks[u] /\ store[h].tasks[u]["status"] = "deleted"
          /\ store[h].ws = <<>>
====
